---- MODULE Spec2Model ----
(***************************************************************************)
(* Recursive Voronoi rasterizer (src/voronoi.js, src/canvas.js,            *)
(* src/util.js): module-level buffers, tile placement, the label grid, the *)
(* divide-and-conquer renderRecursive with its boundary transition         *)
(* searches, and recolor.                                                  *)
(*                                                                         *)
(* Tile ids, coordinates and pixel indexes are 0-based as in the source;   *)
(* arrays are sequences, so element k of an array is seq[k + 1].           *)
(***************************************************************************)
EXTENDS Integers, Sequences, FiniteSets, TLC

(***************************************************************************)
(* Program constants.                                                      *)
(***************************************************************************)
MIN_SIZE == 16
Uint8Max == 255
Uint16Max == 65535

(***************************************************************************)
(* Bounds of the model.                                                    *)
(***************************************************************************)
\* numTiles is drawn from 1..MaxTiles (and the dense DenseTiles)
MaxTiles == 3
\* number of drawRandomVoronoiDiagram / recolor calls in one behaviour
MaxOps == 2
\* canvas widths MIN_SIZE .. MIN_SIZE + MaxExtra are drawn (height MIN_SIZE),
\* and the small canvas SmallWidth x SmallHeight
MaxExtra == 1
SmallWidth == 3
SmallHeight == 2
\* seeds of the random colour bytes
MaxSeed == 1
\* capitals are drawn from the windows 0 .. MaxShift of the pool of positions
MaxShift == 1
\* iterations granted to one doubling/halving search before it is reported
\* as not terminating
MaxProbes == 40
MaxUrls == 2
MaxResolutions == 2
MaxImageCalls == 3
LineLen == 6
LineLabels == 3
\* the lemma about boxes is checked on the boxes of BoxSide x BoxSide pixels
BoxSide == 3
\* distance is called with metric exponents up to MaxExponent and with
\* coordinates 0 .. MaxCoord
MaxExponent == 5
MaxCoord == 2
\* the antialiasing pass runs on canvases of AaWidth x AaHeight pixels and
\* one pixel less each way, MaxDiagrams diagrams in one behaviour
AaWidth == 5
AaHeight == 4
MaxDiagrams == 2
\* the page script: at most MaxRequests calls of doRender in one behaviour,
\* test() draws at most MaxIterations diagrams and animateImage() at most
\* MaxFrames
MaxRequests == 3
MaxIterations == 2
MaxFrames == 2

\* the value JavaScript reads from an index outside a typed array, from a
\* missing array element, and returns from a function without a value
Undefined == 0 - 1

VARIABLES
  metric,           \* util.js: the exponent read from the URL at module load
  tilesArray,       \* voronoi.js: let tilesArray (<<>> = undefined)
  pixelsArray,      \* voronoi.js: let pixelsArray (<<>> = undefined)
  bytesPerElement,  \* pixelsArray.BYTES_PER_ELEMENT (0 = undefined)
  unsetId,          \* voronoi.js: let unsetId
  canvasW,          \* canvas.js: let canvas: its width (0 = undefined)
  canvasH,          \* canvas.js: let canvas: its height
  data,             \* canvas.js: imageData.data, one RGB triple per pixel
  stack,            \* pending renderRecursive calls, innermost first
  running,          \* the exported function being executed, or "none"
  last,             \* the exported function that returned last, or "none"
  numTiles,         \* the numTiles argument of the last placeTiles call
  ops,              \* number of exported calls made so far
  pixelsBefore,     \* the label grid when the running/last call was entered
  lastCall,         \* the renderRecursive call executed by the last step
  rawMetric,        \* util.js: the 'metric' parameter of location.search
  point,            \* util.js: the arguments <<x1, y1, x2, y2>> of distance
  distValue,        \* util.js: the value distance returned
  borderPixels,     \* antialias.js: let borderPixels (<<>> = undefined)
  bordersKnownState,\* antialias.js: state === bordersKnownState
  surfaceBefore,    \* the pixel surface when the antialiasing pass began
  renderInProgress, \* main.js: doRender's let renderInProgress
  debouncedFn,      \* main.js: doRender's let debouncedFn (0 = null)
  inFlight,         \* the render functions started and not yet completed
  requestKind,      \* the render function of every request made so far
  started,          \* the requests whose function was invoked, in order
  replaced,         \* the requests overwritten in debouncedFn
  testMode,         \* main.js: TEST_MODE
  version,          \* which page script runs: "main.js" or "part_002"
  loopPhase,        \* where test() or animateImage() is: "off", "draw" (a
                    \* diagram is being drawn), "frame" (waiting for the
                    \* animation frame), "done"
  loopLeft,         \* the diagrams test() or animateImage() has still to draw
  cachedImageUrl,   \* util.js: loadImagePixelData's let cachedImageUrl
                    \* (0 = undefined)
  cachedResolutions,\* util.js: loadImagePixelData's let cachedResolutions
  loads,            \* the images created and not yet loaded
  served,           \* what the last loadImagePixelData call took from the
                    \* cache
  imageCalls        \* number of loadImagePixelData calls made so far

\* the variables of the rasterizer, of util.js, of the antialiasing pass and
\* of the page script
rasterVars == <<metric, tilesArray, pixelsArray, bytesPerElement, unsetId,
                canvasW, canvasH, data, stack, running, last, numTiles, ops,
                pixelsBefore, lastCall>>
imageVars == <<cachedImageUrl, cachedResolutions, loads, served, imageCalls>>
utilVars == <<rawMetric, point, distValue, imageVars>>
antialiasVars == <<borderPixels, bordersKnownState, surfaceBefore>>
mainVars == <<renderInProgress, debouncedFn, inFlight, requestKind, started,
              replaced, testMode, version, loopPhase, loopLeft>>

vars == <<metric, tilesArray, pixelsArray, bytesPerElement, unsetId, canvasW,
          canvasH, data, stack, running, last, numTiles, ops, pixelsBefore,
          lastCall, rawMetric, point, distValue, borderPixels, bordersKnownState,
          surfaceBefore, renderInProgress, debouncedFn, inFlight, requestKind,
          started, replaced, testMode, version, loopPhase, loopLeft,
          cachedImageUrl, cachedResolutions, loads, served, imageCalls>>

(***************************************************************************)
(* util.js                                                                 *)
(***************************************************************************)
Abs(a) == IF a < 0 THEN 0 - a ELSE a

Max(a, b) == IF a > b THEN a ELSE b

RECURSIVE Pow(_, _)
Pow(b, e) == IF e = 0 THEN 1 ELSE b * Pow(b, e - 1)

euclideanDist(x1, y1, x2, y2) ==
  LET dx == x1 - x2
      dy == y1 - y2
  IN  dx * dx + dy * dy

\* distance with case 3 computed without Math.abs
distanceSigned(m, x1, y1, x2, y2) ==
  CASE m = 1 -> Abs(x1 - x2) + Abs(y1 - y2)
    [] m = 2 -> euclideanDist(x1, y1, x2, y2)
    [] m = 3 -> LET dx == x1 - x2
                    dy == y1 - y2
                IN  dx * dx * dx + dy * dy * dy
    [] m = 4 -> LET dx == (x1 - x2) * (x1 - x2)
                    dy == (y1 - y2) * (y1 - y2)
                IN  dx * dx + dy * dy
    [] OTHER -> IF m > 1
                  THEN Pow(Abs(x1 - x2), m) + Pow(Abs(y1 - y2), m)
                  ELSE euclideanDist(x1, y1, x2, y2)

\* distance: the function selected by the switch on the configured metric
distance(m, x1, y1, x2, y2) ==
  CASE m = 1 -> Abs(x1 - x2) + Abs(y1 - y2)
    [] m = 2 -> euclideanDist(x1, y1, x2, y2)
    [] m = 3 -> LET dx == Abs(x1 - x2)
                    dy == Abs(y1 - y2)
                IN  dx * dx * dx + dy * dy * dy
    [] m = 4 -> LET dx == (x1 - x2) * (x1 - x2)
                    dy == (y1 - y2) * (y1 - y2)
                IN  dx * dx + dy * dy
    [] OTHER -> IF m > 1
                  THEN Pow(Abs(x1 - x2), m) + Pow(Abs(y1 - y2), m)
                  ELSE euclideanDist(x1, y1, x2, y2)

\* Number(new URLSearchParams(location.search).get('metric')): get returns
\* null for a missing parameter and Number(null) is 0; text that is no
\* numeral gives NaN
ToNumber(raw) ==
  [nan |-> raw.kind = "text",
   val |-> IF raw.kind = "number" THEN raw.val ELSE 0]

\* the function the module exports for a number: NaN matches no case of the
\* switch and fails the test metric > 1
distanceFor(num, x1, y1, x2, y2) ==
  IF num.nan THEN euclideanDist(x1, y1, x2, y2)
  ELSE distance(num.val, x1, y1, x2, y2)

(***************************************************************************)
(* canvas.js                                                               *)
(***************************************************************************)
Black == <<0, 0, 0>>

\* setPixel: a write outside the typed array is ignored
setPixel(d, pixelIndex, rgb) ==
  IF pixelIndex >= 0 /\ pixelIndex < Len(d)
    THEN [d EXCEPT ![pixelIndex + 1] = rgb]
    ELSE d

\* setRowHorizontal: i runs from leftIndex << 2 while i < (rightIndex << 2) + 1
setRowHorizontal(d, leftIndex, rightIndex, rgb) ==
  [k \in 1..Len(d) |->
     IF leftIndex <= k - 1 /\ k - 1 <= rightIndex THEN rgb ELSE d[k]]

(***************************************************************************)
(* voronoi.js: the rasterizer.  The operators below thread a machine       *)
(* record m through the code:                                              *)
(*   m.tiles, m.width, m.unsetId, m.bytes, m.metric : what the code reads  *)
(*   m.pixels, m.data : the label grid and the pixel surface it writes     *)
(*   m.threw : a TypeError was thrown (the call is abandoned)              *)
(*   m.hung  : a search loop used up MaxProbes iterations                  *)
(*   m.strayed, m.probes : what the searches did, for the properties: a    *)
(*     probe outside the searched segment, the number of loop iterations   *)
(* An intermediate result of the code is passed on as an operator          *)
(* argument, so every statement is evaluated once, in program order.       *)
(***************************************************************************)
Stopped(m) == m.threw \/ m.hung

\* pixels[pixelIndex]: undefined outside the typed array
ReadPixel(pixels, pixelIndex) ==
  IF pixelIndex >= 0 /\ pixelIndex < Len(pixels)
    THEN pixels[pixelIndex + 1]
    ELSE Undefined

\* pixels[pixelIndex] = value: truncated to the element width, ignored
\* outside the typed array
WritePixel(pixels, bytes, pixelIndex, value) ==
  IF pixelIndex >= 0 /\ pixelIndex < Len(pixels)
    THEN [pixels EXCEPT ![pixelIndex + 1] = value % Pow(2, 8 * bytes)]
    ELSE pixels

\* allTiles[tileIndex]: TRUE when the element exists
HasTile(tiles, tileIndex) == tileIndex >= 0 /\ tileIndex < Len(tiles)

\* allTiles[tileIndex] as a Set holds it: the tile, or undefined
TileAt(tiles, tileIndex) ==
  IF HasTile(tiles, tileIndex) THEN tileIndex ELSE Undefined

\* Set.prototype.add on a Set kept in insertion order
SetAdd(set, e) ==
  IF \E k \in 1..Len(set) : set[k] = e THEN set ELSE Append(set, e)

RECURSIVE SetAddAll(_, _, _)
SetAddAll(set, other, k) ==
  IF k > Len(other) THEN set ELSE SetAddAll(SetAdd(set, other[k]), other, k + 1)

\* findClosestTile with "dist <= minDist": the last element at the minimum
\* distance
findClosestTileLast(m, x, y, tiles) ==
  IF tiles = <<>> THEN Undefined
  ELSE IF \E k \in 1..Len(tiles) : tiles[k] = Undefined THEN Undefined
  ELSE
    LET dist(k) == distance(m.metric, x, y, m.tiles[tiles[k] + 1].x,
                            m.tiles[tiles[k] + 1].y)
        closest == CHOOSE k \in 1..Len(tiles) :
                     /\ \A j \in 1..Len(tiles) : dist(k) <= dist(j)
                     /\ \A j \in (k + 1)..Len(tiles) : dist(j) # dist(k)
    IN  tiles[closest]

\* findClosestTile: linear scan in iteration order, strict improvement only,
\* so the result is the first element at the minimum distance.  Returns the
\* tile's index; Undefined when the scan or the caller's use of the result
\* throws (an undefined element in the collection, or an empty collection).
findClosestTile(m, x, y, tiles) ==
  IF tiles = <<>> THEN Undefined
  ELSE IF \E k \in 1..Len(tiles) : tiles[k] = Undefined THEN Undefined
  ELSE
    LET dist(k) == distance(m.metric, x, y, m.tiles[tiles[k] + 1].x,
                            m.tiles[tiles[k] + 1].y)
        dists == {dist(k) : k \in 1..Len(tiles)}
        minDist == CHOOSE d \in dists : \A e \in dists : d <= e
        closest == CHOOSE k \in 1..Len(tiles) :
                     /\ dist(k) = minDist
                     /\ \A j \in 1..(k - 1) : dist(j) # minDist
    IN  tiles[closest]

\* calculatePixel, the branch tileIndex === unsetId, given the closest tile
storePixel(m, pixelIndex, tile) ==
  IF tile = Undefined
    THEN [m |-> [m EXCEPT !.threw = TRUE], ret |-> Undefined]
    ELSE [m |-> [m EXCEPT
                   !.data = setPixel(m.data, pixelIndex,
                                     m.tiles[tile + 1].color),
                   !.pixels = WritePixel(m.pixels, m.bytes, pixelIndex,
                                         m.tiles[tile + 1].i)],
          ret |-> m.tiles[tile + 1].i]

\* calculatePixel without the test tileIndex === unsetId: the closest tile
\* of the subset is stored whatever the pixel holds
calculatePixelAlways(m, x, y, pixelIndex, tilesSubset) ==
  IF Stopped(m) THEN [m |-> m, ret |-> Undefined]
  ELSE storePixel(m, pixelIndex, findClosestTile(m, x, y, tilesSubset))

\* calculatePixel: returns [m |-> the machine after the call, ret |-> tileIndex]
calculatePixel(m, x, y, pixelIndex, tilesSubset) ==
  IF Stopped(m) THEN [m |-> m, ret |-> Undefined]
  ELSE IF ReadPixel(m.pixels, pixelIndex) = m.unsetId
    THEN storePixel(m, pixelIndex, findClosestTile(m, x, y, tilesSubset))
    ELSE [m |-> m, ret |-> ReadPixel(m.pixels, pixelIndex)]

(***************************************************************************)
(* The doubling/halving search of the three scan loops.  A scan s is a row *)
(* (s.horizontal, s.line = y, the coordinate c runs along x) or a column   *)
(* (s.line = x, c runs along y); s.tilesSubset is the candidate subset of  *)
(* the state the scan was called with.                                     *)
(***************************************************************************)
Scan(horizontal, line, tilesSubset) ==
  [horizontal |-> horizontal, line |-> line, tilesSubset |-> tilesSubset]

LineX(s, c) == IF s.horizontal THEN c ELSE s.line
LineY(s, c) == IF s.horizontal THEN s.line ELSE c
LineIndex(m, s, c) == LineX(s, c) + m.width * LineY(s, c)

calculateOnLine(m, s, c) ==
  calculatePixel(m, LineX(s, c), LineY(s, c), LineIndex(m, s, c),
                 s.tilesSubset)

\* MoveRight without the else branch: right never moves back
MoveRightOnly(m, s, nearTileIndex, right, step) ==
  IF ReadPixel(m.pixels, LineIndex(m, s, right)) = nearTileIndex
    THEN right + step
    ELSE right

\* if (pixels[rightPixelIndex] === leftTileIndex) right += step; else -= step
MoveRight(m, s, nearTileIndex, right, step) ==
  IF ReadPixel(m.pixels, LineIndex(m, s, right)) = nearTileIndex
    THEN right + step
    ELSE right - step

\* if (step > 1) step >>= 1
HalveStep(step) == IF step > 1 THEN step \div 2 ELSE step

\* a probe of the search between near = seg[1] and far = seg[2]: the machine
\* notes in .strayed a probed coordinate outside [near, far]
Strays(seg, c) == c < seg[1] \/ c > seg[2]

probeOnLine(m, s, seg, c) ==
  calculateOnLine([m EXCEPT !.strayed = @ \/ Strays(seg, c)], s, c)

\* the do { ... } while (...) loop; returns [m, right]; the machine counts
\* the iterations of the loop in .probes
RECURSIVE searchLoop(_, _, _, _, _, _, _)

\* ... || calculatePixel(right + 1) === leftTileIndex
searchWhileNext(b, s, seg, nearTileIndex, right, step, fuel) ==
  IF b.ret = nearTileIndex
    THEN searchLoop(b.m, s, seg, nearTileIndex, right, step, fuel - 1)
    ELSE [m |-> b.m, right |-> right]

\* searchWhile with the second probe two pixels beyond right
searchWhileTwoBeyond(a, s, seg, nearTileIndex, right, step, fuel) ==
  IF a.ret # nearTileIndex
    THEN searchLoop(a.m, s, seg, nearTileIndex, right, step, fuel - 1)
    ELSE searchWhileNext(probeOnLine(a.m, s, seg, right + 2), s, seg,
                         nearTileIndex, right, step, fuel)

\* while (calculatePixel(right) !== leftTileIndex || ...
searchWhile(a, s, seg, nearTileIndex, right, step, fuel) ==
  IF a.ret # nearTileIndex
    THEN searchLoop(a.m, s, seg, nearTileIndex, right, step, fuel - 1)
    ELSE searchWhileNext(probeOnLine(a.m, s, seg, right + 1), s, seg,
                         nearTileIndex, right, step, fuel)

searchLoop(m, s, seg, nearTileIndex, right, step, fuel) ==
  IF Stopped(m) THEN [m |-> m, right |-> right]
  ELSE IF fuel = 0 THEN [m |-> [m EXCEPT !.hung = TRUE], right |-> right]
  ELSE searchWhile(probeOnLine([m EXCEPT !.probes = @ + 1], s, seg,
                               MoveRight(m, s, nearTileIndex, right, step)),
                   s, seg, nearTileIndex,
                   MoveRight(m, s, nearTileIndex, right, step),
                   HalveStep(step), fuel)

\* if (calculatePixel(right) !== leftTileIndex) { step = ...; do ... while }
searchFrom(a, s, near, far, nearTileIndex) ==
  IF a.ret # nearTileIndex
    THEN searchLoop(a.m, s, <<near, far>>, nearTileIndex, far,
                    Max((far - near) \div 2, 1), MaxProbes)
    ELSE [m |-> a.m, right |-> far]

\* let right = far, then the search: returns [m, right]
findRunEnd(m, s, near, far, nearTileIndex) ==
  searchFrom(calculateOnLine(m, s, far), s, near, far, nearTileIndex)

\* getBoundaryTilesVertical, the while (top < maxY) loop
RECURSIVE boundaryVerticalLoop(_, _, _, _, _)

\* top = bottom + 1
verticalNext(r, s, maxY, boundaryTiles) ==
  boundaryVerticalLoop(r.m, s, r.right + 1, maxY, boundaryTiles)

\* boundaryTiles.add(allTiles[topTileIndex]), then the search for bottom
verticalRun(a, s, top, maxY, boundaryTiles) ==
  verticalNext(findRunEnd(a.m, s, top, maxY, a.ret), s, maxY,
               SetAdd(boundaryTiles, TileAt(a.m.tiles, a.ret)))

boundaryVerticalLoop(m, s, top, maxY, boundaryTiles) ==
  IF Stopped(m) \/ ~(top < maxY) THEN [m |-> m, set |-> boundaryTiles]
  ELSE verticalRun(calculateOnLine(m, s, top), s, top, maxY, boundaryTiles)

\* the value a boundary scan returns: [m, set, returned]
Returned(r) == [m |-> r.m, set |-> r.set, returned |-> TRUE]

\* getBoundaryTilesVertical: returned = FALSE models the bare return
\* (undefined) for x === 0; the scan starts at minY + 1
getBoundaryTilesVertical(m, x, minY, maxY, tilesSubset, boundaryTiles) ==
  IF x = 0 THEN [m |-> m, set |-> boundaryTiles, returned |-> FALSE]
  ELSE Returned(boundaryVerticalLoop(m, Scan(FALSE, x, tilesSubset),
                                     minY + 1, maxY, boundaryTiles))

\* canvas.setRowHorizontal(leftPixelIndex, rightPixelIndex, color of the
\* near tile) after a search: reading .color of undefined throws
fillRun(r, s, left, nearTileIndex) ==
  IF Stopped(r.m) THEN r.m
  ELSE IF ~HasTile(r.m.tiles, nearTileIndex) THEN [r.m EXCEPT !.threw = TRUE]
  ELSE [r.m EXCEPT !.data =
          setRowHorizontal(r.m.data, LineIndex(r.m, s, left),
                           LineIndex(r.m, s, r.right),
                           r.m.tiles[nearTileIndex + 1].color)]

\* getBoundaryTilesHorizontal, the while (left <= maxX) loop
RECURSIVE boundaryHorizontalLoop(_, _, _, _, _)

\* the fill, then left = right + 1
horizontalNext(r, s, left, maxX, nearTileIndex, boundaryTiles) ==
  boundaryHorizontalLoop(fillRun(r, s, left, nearTileIndex), s, r.right + 1,
                         maxX, boundaryTiles)

\* boundaryTiles.add(leftTile), then the search for right
horizontalRun(a, s, left, maxX, boundaryTiles) ==
  horizontalNext(findRunEnd(a.m, s, left, maxX, a.ret), s, left, maxX, a.ret,
                 SetAdd(boundaryTiles, TileAt(a.m.tiles, a.ret)))

boundaryHorizontalLoop(m, s, left, maxX, boundaryTiles) ==
  IF Stopped(m) \/ ~(left <= maxX) THEN [m |-> m, set |-> boundaryTiles]
  ELSE horizontalRun(calculateOnLine(m, s, left), s, left, maxX,
                     boundaryTiles)

\* getBoundaryTilesHorizontal: returned = FALSE models the bare return
\* (undefined) for y === 0
getBoundaryTilesHorizontal(m, y, minX, maxX, tilesSubset, boundaryTiles) ==
  IF y = 0 THEN [m |-> m, set |-> boundaryTiles, returned |-> FALSE]
  ELSE Returned(boundaryHorizontalLoop(m, Scan(TRUE, y, tilesSubset), minX,
                                       maxX, boundaryTiles))

\* splitTilesSubsetVertical with the comparison reversed: the tiles right of
\* the cut go to the left subset
splitTilesSubsetVerticalReversed(m, tilesSubset, middleX) ==
  <<SelectSeq(tilesSubset, LAMBDA t : m.tiles[t + 1].x > middleX),
    SelectSeq(tilesSubset, LAMBDA t : ~(m.tiles[t + 1].x > middleX))>>

\* splitTilesSubsetVertical / splitTilesSubsetHorizontal
splitTilesSubsetVertical(m, tilesSubset, middleX) ==
  <<SelectSeq(tilesSubset, LAMBDA t : m.tiles[t + 1].x < middleX),
    SelectSeq(tilesSubset, LAMBDA t : ~(m.tiles[t + 1].x < middleX))>>

splitTilesSubsetHorizontal(m, tilesSubset, middleY) ==
  <<SelectSeq(tilesSubset, LAMBDA t : m.tiles[t + 1].y < middleY),
    SelectSeq(tilesSubset, LAMBDA t : ~(m.tiles[t + 1].y < middleY))>>

(***************************************************************************)
(* renderRecursive.  A call is a frame                                     *)
(*   [minX, minY, maxX, maxY, tilesSubset, isSet]                          *)
(* where tilesSubset lists tile indexes in iteration order and isSet tells *)
(* a Set (which has .size) from the tiles Array that recolor passes.       *)
(***************************************************************************)
Frame(minX, minY, maxX, maxY, tilesSubset, isSet) ==
  [minX |-> minX, minY |-> minY, maxX |-> maxX, maxY |-> maxY,
   tilesSubset |-> tilesSubset, isSet |-> isSet]

boxWidth(f) == f.maxX - f.minX + 1
boxHeight(f) == f.maxY - f.minY + 1

\* if (tilesSubset.size === 1)
IsSolid(f) == f.isSet /\ Len(f.tilesSubset) = 1

\* if (boxWidth < MIN_SIZE || boxHeight < MIN_SIZE)
IsSmall(f) == boxWidth(f) < MIN_SIZE \/ boxHeight(f) < MIN_SIZE

\* the solid-colour terminal: for (let y = minY; y < maxY; ++y) setRowHorizontal
RECURSIVE solidRows(_, _, _, _)
solidRows(m, f, y, color) ==
  IF ~(y < f.maxY) THEN m
  ELSE solidRows([m EXCEPT !.data =
                    setRowHorizontal(m.data, f.minX + m.width * y,
                                     f.maxX + m.width * y, color)],
                 f, y + 1, color)

renderSolid(m, f) ==
  IF f.tilesSubset[1] = Undefined THEN [m EXCEPT !.threw = TRUE]
  ELSE solidRows(m, f, f.minY, m.tiles[f.tilesSubset[1] + 1].color)

\* the small-box terminal, the while (left < maxX) loop of one row
RECURSIVE rowScan(_, _, _, _)

\* the fill, then left = right + 1
rowNext(r, f, s, left, nearTileIndex) ==
  rowScan(fillRun(r, s, left, nearTileIndex), f, s.line, r.right + 1)

\* the search for right from leftTileIndex
rowRun(a, f, s, left) ==
  rowNext(findRunEnd(a.m, s, left, f.maxX, a.ret), f, s, left, a.ret)

rowScan(m, f, y, left) ==
  IF Stopped(m) \/ ~(left < f.maxX) THEN m
  ELSE rowRun(calculateOnLine(m, Scan(TRUE, y, f.tilesSubset), left), f,
              Scan(TRUE, y, f.tilesSubset), left)

\* the small-box terminal: for (let y = minY; y < maxY; ++y)
RECURSIVE smallBoxRows(_, _, _)
smallBoxRows(m, f, y) ==
  IF Stopped(m) \/ ~(y < f.maxY) THEN m
  ELSE smallBoxRows(rowScan(m, f, y, f.minX), f, y + 1)

renderSmallBox(m, f) == smallBoxRows(m, f, f.minY)

\* a boundary scan that adds to the subset built so far
thenVertical(r, x, minY, maxY, tilesSubset) ==
  getBoundaryTilesVertical(r.m, x, minY, maxY, tilesSubset, r.set)

thenHorizontal(r, y, minX, maxX, tilesSubset) ==
  getBoundaryTilesHorizontal(r.m, y, minX, maxX, tilesSubset, r.set)

\* for (const tile of midBoundary) tilesSubset.add(tile): midBoundary is
\* undefined when the cut line's scan returned nothing
AddMidBoundary(r, mid) ==
  IF Stopped(r.m) THEN [m |-> r.m, set |-> r.set]
  ELSE IF mid.returned
    THEN [m |-> r.m, set |-> SetAddAll(r.set, mid.set, 1)]
    ELSE [m |-> [r.m EXCEPT !.threw = TRUE], set |-> r.set]

\* the two recursive calls, sub1 first: [m, calls]
Calls(half1, half2, sub1, sub2) ==
  [m |-> half2.m,
   calls |-> <<Frame(sub1[1], sub1[2], sub1[3], sub1[4], half1.set, TRUE),
               Frame(sub2[1], sub2[2], sub2[3], sub2[4], half2.set, TRUE)>>]

\* CUT VERTICALLY: const middleX = (minX + maxX) >> 1
MiddleX(f) == (f.minX + f.maxX) \div 2

\* "calculate boundary tiles for right half", then the calls
cutVerticallyRight(left, mid, f) ==
  Calls(left,
        AddMidBoundary(
          thenHorizontal(
            thenHorizontal(
              thenVertical(
                [m |-> left.m,
                 set |-> splitTilesSubsetVertical(left.m, f.tilesSubset,
                                                  MiddleX(f))[2]],
                f.maxX, f.minY, f.maxY, f.tilesSubset),
              f.minY, MiddleX(f), f.maxX, f.tilesSubset),
            f.maxY, MiddleX(f), f.maxX, f.tilesSubset),
          mid),
        <<f.minX, f.minY, MiddleX(f), f.maxY>>,
        <<MiddleX(f), f.minY, f.maxX, f.maxY>>)

\* the split and "calculate boundary tiles for left half"
cutVerticallyLeft(mid, f) ==
  cutVerticallyRight(
    AddMidBoundary(
      thenHorizontal(
        thenHorizontal(
          thenVertical(
            [m |-> mid.m,
             set |-> splitTilesSubsetVertical(mid.m, f.tilesSubset,
                                              MiddleX(f))[1]],
            f.minX, f.minY, f.maxY, f.tilesSubset),
          f.minY, f.minX, MiddleX(f), f.tilesSubset),
        f.maxY, f.minX, MiddleX(f), f.tilesSubset),
      mid),
    mid, f)

\* "calculate middle boundary tiles" and the rest of the branch: [m, calls]
cutVertically(m, f) ==
  cutVerticallyLeft(
    getBoundaryTilesVertical(m, MiddleX(f), f.minY, f.maxY, f.tilesSubset,
                             <<>>),
    f)

\* CUT HORIZONTALLY: const middleY = (minY + maxY) >> 1
MiddleY(f) == (f.minY + f.maxY) \div 2

\* "calculate boundary tiles for bottom half", then the calls
cutHorizontallyBottom(top, mid, f) ==
  Calls(top,
        AddMidBoundary(
          thenVertical(
            thenVertical(
              thenHorizontal(
                [m |-> top.m,
                 set |-> splitTilesSubsetHorizontal(top.m, f.tilesSubset,
                                                    MiddleY(f))[2]],
                f.maxY, f.minX, f.maxX, f.tilesSubset),
              f.minX, MiddleY(f), f.maxY, f.tilesSubset),
            f.maxX, MiddleY(f), f.maxY, f.tilesSubset),
          mid),
        <<f.minX, f.minY, f.maxX, MiddleY(f)>>,
        <<f.minX, MiddleY(f), f.maxX, f.maxY>>)

\* the split and "calculate boundary tiles for top half"
cutHorizontallyTop(mid, f) ==
  cutHorizontallyBottom(
    AddMidBoundary(
      thenVertical(
        thenVertical(
          thenHorizontal(
            [m |-> mid.m,
             set |-> splitTilesSubsetHorizontal(mid.m, f.tilesSubset,
                                                MiddleY(f))[1]],
            f.minY, f.minX, f.maxX, f.tilesSubset),
          f.minX, f.minY, MiddleY(f), f.tilesSubset),
        f.maxX, f.minY, MiddleY(f), f.tilesSubset),
      mid),
    mid, f)

\* "calculate middle boundary tiles" and the rest of the branch: [m, calls]
cutHorizontally(m, f) ==
  cutHorizontallyTop(
    getBoundaryTilesHorizontal(m, MiddleY(f), f.minX, f.maxX, f.tilesSubset,
                               <<>>),
    f)

\* the recursive case with "boxWidth >= boxHeight": a square box is cut
\* vertically
renderSplitTieVertical(m, f) ==
  IF boxWidth(f) >= boxHeight(f) THEN cutVertically(m, f)
  ELSE cutHorizontally(m, f)

\* the recursive case up to its two recursive calls
renderSplit(m, f) ==
  IF boxWidth(f) > boxHeight(f) THEN cutVertically(m, f)
  ELSE cutHorizontally(m, f)

\* renderRecursive run to completion: calls lists the pending calls in the
\* order the code makes them
RECURSIVE renderRecursive(_, _)

\* renderRecursive(sub1); renderRecursive(sub2); then the caller's pending calls
recurse(r, pending) == renderRecursive(r.m, r.calls \o pending)

renderRecursive(m, calls) ==
  IF Stopped(m) \/ calls = <<>> THEN m
  ELSE IF IsSolid(Head(calls))
    THEN renderRecursive(renderSolid(m, Head(calls)), Tail(calls))
  ELSE IF IsSmall(Head(calls))
    THEN renderRecursive(renderSmallBox(m, Head(calls)), Tail(calls))
  ELSE recurse(renderSplit(m, Head(calls)), Tail(calls))

(***************************************************************************)
(* Inputs.  Math.random and crypto.getRandomValues are drawn from bounded  *)
(* families: the capitals of a placement are a window of a pool of pixel   *)
(* positions of the canvas, or, for the dense placement, the first         *)
(* numTiles pixels in row-major order; the colour bytes are generated from *)
(* a seed.                                                                 *)
(***************************************************************************)
Metrics == {1, 2}

\* the first tile count for which the label grid needs two bytes
DenseTiles == Uint8Max

CanvasSizes ==
  {<<SmallWidth, SmallHeight>>}
    \cup {<<MIN_SIZE + e, MIN_SIZE>> : e \in 0..MaxExtra}
    \cup {<<MIN_SIZE, MIN_SIZE + e>> : e \in 1..MaxExtra}

SmallPool == <<<<0, 0>>, <<2, 1>>, <<1, 0>>>>
LargePool == <<<<8, 4>>, <<5, 0>>, <<14, 4>>, <<2, 7>>, <<3, 5>>, <<1, 13>>>>

Pool(width, height) ==
  IF width < MIN_SIZE \/ height < MIN_SIZE THEN SmallPool ELSE LargePool

\* the tile counts drawn for a canvas: the sparse ones, the dense one, and
\* on the small canvas one tile for every pixel
TileCounts(width, height) ==
  {n \in 1..MaxTiles : n <= Len(Pool(width, height))}
    \cup {n \in {DenseTiles} : n < width * height}
    \cup {n \in {width * height} : width < MIN_SIZE \/ height < MIN_SIZE}

\* the capitals placeTiles draws: pairwise distinct, inside the canvas
Placements(n, width, height) ==
  IF n > MaxTiles
    THEN {[i \in 1..n |-> <<(i - 1) % width, (i - 1) \div width>>]}
    ELSE LET pool == Pool(width, height)
         IN  {[i \in 1..n |->
                 pool[((k * (Len(LargePool) \div 2) + i - 1) % Len(pool)) + 1]] :
                k \in 0..MaxShift}

Seeds == 1..MaxSeed

\* three random bytes for tile i
RandColor(seed, i) ==
  <<(83 * seed + 29 * i + 7) % 256, (41 * seed + 113 * i + 3) % 256,
    (17 * seed + 59 * i + 11) % 256>>

(***************************************************************************)
(* placeTiles, createCanvas, calculateAndRenderPixels                      *)
(***************************************************************************)
\* placeTiles: tilesArray is reused ("tilesArray.length === numTiles" is a
\* comparison, not an assignment), elements 0..numTiles-1 are replaced
placeTiles(old, n, capitals, seed) ==
  [i \in 1..Max(Len(old), n) |->
     IF i <= n
       THEN [i |-> i - 1, x |-> capitals[i][1], y |-> capitals[i][2],
             color |-> RandColor(seed, i - 1)]
       ELSE old[i]]

\* createCanvas: the canvas is reused when the dimensions are the same,
\* otherwise a new one is created and filled with black
createCanvas(width, height) ==
  IF canvasW = width /\ canvasH = height THEN data
  ELSE [k \in 1..(width * height) |-> Black]

\* ResetBytes without the check that widens a one-byte array for 255 sites
\* or more
ResetBytesKeepWidth(oldLength, oldBytes, n, length) ==
  IF oldBytes = 0 \/ oldLength # length
    THEN (IF n < Uint8Max THEN 1 ELSE 2)
    ELSE oldBytes

\* the element width of the array calculateAndRenderPixels works on
ResetBytes(oldLength, oldBytes, n, length) ==
  IF oldBytes = 0 \/ oldLength # length \/ (n >= Uint8Max /\ oldBytes = 1)
    THEN (IF n < Uint8Max THEN 1 ELSE 2)
    ELSE oldBytes

\* unsetId = tiles.length < 0xff ? 0xff : 0xffff
ResetUnsetId(n) == IF n < Uint8Max THEN Uint8Max ELSE Uint16Max

\* pixelsArray.fill(unsetId), then pixels[tile.x + width * tile.y] = tileIndex
\* for every tile in turn: a pixel holds the last tile index written to it
ResetPixels(bytes, unset, tiles, width, height) ==
  [k \in 1..(width * height) |->
     LET here == {t \in 1..Len(tiles) :
                    tiles[t].x + width * tiles[t].y = k - 1}
     IN  IF here = {} THEN unset % Pow(2, 8 * bytes)
         ELSE ((CHOOSE t \in here : \A u \in here : u <= t) - 1)
                % Pow(2, 8 * bytes)]

\* new Set(tiles), or the tiles array itself: all indexes in order
AllTiles(tiles) == [k \in 1..Len(tiles) |-> k - 1]

NoCall == [kind |-> "none"]

\* the resolutions an image can be stretched to, standing for the keys
\* `${width}x${height}`, and the value of a key that is not in
\* cachedResolutions
Resolutions == 1..MaxResolutions
NoData == <<>>
NoServe == [kind |-> "none"]

\* loadImagePixelData before its first call: let cachedImageUrl;
\* let cachedResolutions = {}
ImageIdle ==
  /\ cachedImageUrl = 0
  /\ cachedResolutions = [key \in Resolutions |-> NoData]
  /\ loads = {}
  /\ served = NoServe
  /\ imageCalls = 0

\* util.js before distance and loadImagePixelData are called
UtilIdle ==
  /\ rawMetric = [kind |-> "missing", val |-> 0]
  /\ point = <<0, 0, 0, 0>>
  /\ distValue = Undefined
  /\ ImageIdle

\* antialias.js before the first antialiasing pass
AntialiasIdle ==
  /\ borderPixels = <<>>
  /\ bordersKnownState = FALSE
  /\ surfaceBefore = <<>>

\* main.js before doRender exists
MainIdle ==
  /\ renderInProgress = FALSE
  /\ debouncedFn = 0
  /\ inFlight = {}
  /\ requestKind = <<>>
  /\ started = <<>>
  /\ replaced = {}
  /\ testMode = FALSE
  /\ version = "main.js"
  /\ loopPhase = "off"
  /\ loopLeft = 0

\* the module-level state of voronoi.js and canvas.js at load
RasterIdle ==
  /\ tilesArray = <<>>
  /\ pixelsArray = <<>>
  /\ bytesPerElement = 0
  /\ unsetId = Undefined
  /\ canvasW = 0
  /\ canvasH = 0
  /\ data = <<>>
  /\ stack = <<>>
  /\ running = "none"
  /\ last = "none"
  /\ numTiles = 0
  /\ ops = 0
  /\ pixelsBefore = <<>>
  /\ lastCall = NoCall

Init ==
  /\ UtilIdle
  /\ AntialiasIdle
  /\ MainIdle
  /\ metric \in Metrics
  /\ RasterIdle

\* drawRandomVoronoiDiagram up to the top-level renderRecursive call
DrawRandomVoronoiDiagram ==
  /\ running = "none"
  /\ ops < MaxOps
  /\ \E size \in CanvasSizes :
       \E n \in TileCounts(size[1], size[2]) :
         \E capitals \in Placements(n, size[1], size[2]) :
           \E seed \in Seeds :
            \E tiles \in {placeTiles(tilesArray, n, capitals, seed)} :
             LET width == size[1]
                 height == size[2]
                 bytes == ResetBytes(Len(pixelsArray), bytesPerElement,
                                     Len(tiles), width * height)
                 unset == ResetUnsetId(Len(tiles))
             IN  /\ tilesArray' = tiles
                 /\ numTiles' = n
                 /\ data' = createCanvas(width, height)
                 /\ canvasW' = width
                 /\ canvasH' = height
                 /\ bytesPerElement' = bytes
                 /\ unsetId' = unset
                 /\ pixelsArray' = ResetPixels(bytes, unset, tiles, width,
                                               height)
                 /\ stack' = <<Frame(0, 0, width - 1, height - 1,
                                     AllTiles(tiles), TRUE)>>
  /\ running' = "draw"
  /\ ops' = ops + 1
  /\ pixelsBefore' = pixelsArray
  /\ lastCall' = NoCall
  /\ UNCHANGED <<metric, last, utilVars, antialiasVars, mainVars>>

\* drawRandomVoronoiDiagram with more tiles than pixels: placeTiles gives
\* every pixel a capital and then never leaves the loop
\* while (capitals.has(pixelIndex)), every pixel index being in capitals
PlaceTilesHangs ==
  /\ running = "none"
  /\ ops < MaxOps
  /\ \E size \in {<<SmallWidth, SmallHeight>>} :
       \E n \in {size[1] * size[2] + 1} :
         \E capitals \in Placements(n - 1, size[1], size[2]) :
           \E seed \in Seeds :
             /\ tilesArray' = placeTiles(tilesArray, n - 1, capitals, seed)
             /\ numTiles' = n
             /\ lastCall' = [kind |-> "placeTiles", numTiles |-> n,
                             width |-> size[1], height |-> size[2]]
  /\ running' = "placing"
  /\ ops' = ops + 1
  /\ pixelsBefore' = pixelsArray
  /\ UNCHANGED <<metric, pixelsArray, bytesPerElement, unsetId, canvasW,
                 canvasH, data, stack, last, utilVars, antialiasVars,
                 mainVars>>

\* recolor up to its renderRecursive call: new colours for every tile, then
\* renderRecursive on the whole canvas with tilesSubset: tiles (the array)
Recolor ==
  /\ running = "none"
  /\ last \in {"draw", "recolor"}
  /\ ops < MaxOps
  /\ \E seed \in Seeds :
       tilesArray' = [i \in 1..Len(tilesArray) |->
                        [tilesArray[i] EXCEPT
                           !.color = RandColor(MaxSeed + seed, i - 1)]]
  /\ stack' = <<Frame(0, 0, canvasW - 1, canvasH - 1, AllTiles(tilesArray),
                      FALSE)>>
  /\ running' = "recolor"
  /\ ops' = ops + 1
  /\ pixelsBefore' = pixelsArray
  /\ lastCall' = NoCall
  /\ UNCHANGED <<metric, pixelsArray, bytesPerElement, unsetId, canvasW,
                 canvasH, data, last, numTiles, utilVars, antialiasVars,
                 mainVars>>

\* the machine record of the current state
Machine ==
  [tiles |-> tilesArray, width |-> canvasW, unsetId |-> unsetId,
   bytes |-> bytesPerElement, metric |-> metric, pixels |-> pixelsArray,
   data |-> data, threw |-> FALSE, hung |-> FALSE,
   strayed |-> FALSE, probes |-> 0]

\* the effect of one renderRecursive call: the machine after it and the
\* calls it makes; a thrown TypeError unwinds every pending call, a search
\* that never ends leaves the program inside the call
Executed(kind, f, m, calls) ==
  /\ pixelsArray' = m.pixels
  /\ data' = m.data
  /\ lastCall' = [kind |-> kind, frame |-> f, strayed |-> m.strayed,
                   probes |-> m.probes]
  /\ IF m.threw THEN /\ stack' = <<>>
                     /\ running' = "threw"
                     /\ last' = running
     ELSE IF m.hung THEN /\ stack' = stack
                         /\ running' = "hung"
                         /\ last' = running
     ELSE /\ stack' = calls \o Tail(stack)
          /\ running' = running
          /\ last' = last
  /\ UNCHANGED <<metric, tilesArray, bytesPerElement, unsetId, canvasW,
                 canvasH, numTiles, ops, pixelsBefore, utilVars,
                 antialiasVars, mainVars>>

Rendering == running \in {"draw", "recolor"} /\ stack # <<>>

\* renderRecursive, the terminal "this box is a solid color"
RenderSolid ==
  /\ Rendering
  /\ IsSolid(Head(stack))
  /\ \E m \in {renderSolid(Machine, Head(stack))} :
       Executed("solid", Head(stack), m, <<>>)

\* renderRecursive, the terminal "fill in box; stop recursing"
RenderSmallBox ==
  /\ Rendering
  /\ ~IsSolid(Head(stack))
  /\ IsSmall(Head(stack))
  /\ \E m \in {renderSmallBox(Machine, Head(stack))} :
       Executed("small", Head(stack), m, <<>>)

\* renderRecursive, the recursive case: the cut, the boundary scans and the
\* two recursive calls (left/top first)
RenderSplit ==
  /\ Rendering
  /\ ~IsSolid(Head(stack))
  /\ ~IsSmall(Head(stack))
  /\ \E r \in {renderSplit(Machine, Head(stack))} :
       Executed("split", Head(stack), r.m, r.calls)

\* the top-level renderRecursive has returned: canvas.repaint() and return
Return ==
  /\ running \in {"draw", "recolor"}
  /\ stack = <<>>
  /\ running' = "none"
  /\ last' = running
  /\ UNCHANGED <<metric, tilesArray, pixelsArray, bytesPerElement, unsetId,
                 canvasW, canvasH, data, stack, numTiles, ops, pixelsBefore,
                 lastCall, utilVars, antialiasVars, mainVars>>

Next ==
  \/ DrawRandomVoronoiDiagram
  \/ PlaceTilesHangs
  \/ Recolor
  \/ RenderSolid
  \/ RenderSmallBox
  \/ RenderSplit
  \/ Return

Spec == Init /\ [][Next]_vars

(***************************************************************************)
(* Exhaustive nearest-site search, the reference the properties compare    *)
(* the rasterizer with.  Pixels are numbered 0 .. width * height - 1.      *)
(***************************************************************************)
Pixels == 0..(canvasW * canvasH - 1)
PixelX(p) == p % canvasW
PixelY(p) == p \div canvasW

Sites == 1..Len(tilesArray)

SiteDist(t, p) ==
  distance(metric, PixelX(p), PixelY(p), tilesArray[t].x, tilesArray[t].y)

NearestDist(p) ==
  LET dists == {SiteDist(t, p) : t \in Sites}
  IN  CHOOSE d \in dists : \A e \in dists : d <= e

\* the ids of the sites at minimum distance from p
NearestSites(p) ==
  LET d == NearestDist(p)
  IN  {t - 1 : t \in {u \in Sites : SiteDist(u, p) = d}}

\* site id i is at minimum distance from p
IsNearest(i, p) == SiteDist(i + 1, p) = NearestDist(p)

\* argmin with the lowest id among exact ties
NearestLowestId(p) ==
  CHOOSE i \in NearestSites(p) : \A j \in NearestSites(p) : i <= j

DistinctPositions ==
  Cardinality({<<tilesArray[t].x, tilesArray[t].y>> : t \in Sites})
    = Len(tilesArray)

\* a rasterization pass over sites with pairwise-distinct positions returned
PassReturned == running = "none" /\ last = "draw" /\ DistinctPositions

\* ... or is under way
InPass == running = "draw" /\ DistinctPositions

IsUnset(label) == label = unsetId % Pow(2, 8 * bytesPerElement)

\* C1: when the rasterization pass returns, every pixel of the label grid
\* holds the id of the site nearest to it over all sites, the lowest id among
\* exact ties.
C1_LabelsAreNearest ==
  PassReturned =>
    \A p \in Pixels : pixelsArray[p + 1] = NearestLowestId(p)

\* C2: when the rasterization pass returns, every pixel of the pixel surface
\* shows the colour of a site nearest to it.
C2_ColoursAreNearest ==
  PassReturned =>
    \A p \in Pixels :
      \E i \in NearestSites(p) : data[p + 1] = tilesArray[i + 1].color

\* C3: in every state of a rasterization pass, each label that is not the
\* unset sentinel is a valid site id and that site is at minimum distance
\* from the pixel among all sites.
C3_LabelsValidAndNearest ==
  (InPass \/ PassReturned) =>
    \A p \in Pixels :
      ~IsUnset(pixelsArray[p + 1]) =>
        /\ pixelsArray[p + 1] \in 0..(Len(tilesArray) - 1)
        /\ IsNearest(pixelsArray[p + 1], p)

\* the pixels a step resolves: unset before, labelled after
Resolved(p) == IsUnset(pixelsArray[p + 1]) /\ ~IsUnset(pixelsArray'[p + 1])

SubsetOfCall == {Head(stack).tilesSubset[k] : k \in 1..Len(Head(stack).tilesSubset)}

\* C4: a renderRecursive call with candidate subset S resolves a pixel only
\* if S contains a site nearest to it over all sites.
C4_SubsetHoldsOwner ==
  [][(running = "draw" /\ stack # <<>> /\ DistinctPositions) =>
       \A p \in Pixels :
         Resolved(p) => NearestSites(p) \cap SubsetOfCall # {}]_vars

(***************************************************************************)
(* Boxes on the pixel grid, for the lemma renderRecursive's comment states *)
(***************************************************************************)
Box(minX, minY, maxX, maxY) ==
  [minX |-> minX, minY |-> minY, maxX |-> maxX, maxY |-> maxY]

InBox(b, p) ==
  /\ b.minX <= PixelX(p) /\ PixelX(p) <= b.maxX
  /\ b.minY <= PixelY(p) /\ PixelY(p) <= b.maxY

StrictlyInside(b, x, y) ==
  b.minX < x /\ x < b.maxX /\ b.minY < y /\ y < b.maxY

InteriorPixels(b) ==
  {p \in Pixels : StrictlyInside(b, PixelX(p), PixelY(p))}

BoundaryPixels(b) == {p \in Pixels : InBox(b, p)} \ InteriorPixels(b)

InteriorOwners(b) == {NearestLowestId(p) : p \in InteriorPixels(b)}
BoundaryOwners(b) == {NearestLowestId(p) : p \in BoundaryPixels(b)}
CapitalsInside(b) ==
  {t - 1 : t \in {u \in Sites :
                    StrictlyInside(b, tilesArray[u].x, tilesArray[u].y)}}

\* the boxes of side BoxSide on the canvas
Boxes ==
  {Box(x, y, x + BoxSide - 1, y + BoxSide - 1) :
     x \in 0..(canvasW - BoxSide), y \in 0..(canvasH - BoxSide)}

\* C5: for any box B, the sites that own a pixel strictly inside B are
\* exactly the sites whose capital lies strictly inside B together with the
\* sites that own a pixel on B's boundary (checked on the sites just placed).
C5_InteriorOwnersLemma ==
  (running = "draw" /\ lastCall = NoCall /\ DistinctPositions) =>
    \A b \in Boxes :
      InteriorOwners(b) = CapitalsInside(b) \cup BoundaryOwners(b)

\* C6: recolor never changes a label-grid entry.
C6_RecolorKeepsLabels ==
  (running = "recolor" \/ (last = "recolor" /\ running = "none"))
    => pixelsArray = pixelsBefore

\* C7: after recolor returns, every pixel shows the new colour of the site
\* that owned it before the recolor (its label, or a nearest site where the
\* label grid held no label).
C7_RecolorRepaintsAll ==
  (last = "recolor" /\ running = "none") =>
    \A p \in Pixels :
      IF IsUnset(pixelsBefore[p + 1])
        THEN \E i \in NearestSites(p) : data[p + 1] = tilesArray[i + 1].color
        ELSE data[p + 1] = tilesArray[pixelsBefore[p + 1] + 1].color

\* the pass calculateAndRenderPixels makes on the present sites, dimensions
\* and metric when the module-level buffers have never been used
FirstPass ==
  renderRecursive(
    [tiles |-> tilesArray, width |-> canvasW,
     unsetId |-> ResetUnsetId(Len(tilesArray)),
     bytes |-> ResetBytes(0, 0, Len(tilesArray), canvasW * canvasH),
     metric |-> metric,
     pixels |-> ResetPixels(ResetBytes(0, 0, Len(tilesArray),
                                       canvasW * canvasH),
                            ResetUnsetId(Len(tilesArray)), tilesArray,
                            canvasW, canvasH),
     data |-> [k \in 1..(canvasW * canvasH) |-> Black],
     threw |-> FALSE, hung |-> FALSE, strayed |-> FALSE, probes |-> 0],
    <<Frame(0, 0, canvasW - 1, canvasH - 1, AllTiles(tilesArray), TRUE)>>)

\* a rasterization pass ended: it returned, threw or hangs
PassEnded == last = "draw" /\ running \in {"none", "threw", "hung"}

\* C8: a rasterization pass that reuses the module-level buffers of earlier
\* passes ends with the label grid of a first pass on the same sites,
\* dimensions and metric.
C8_PassIsRepeatable ==
  PassEnded =>
    /\ pixelsArray = FirstPass.pixels
    /\ bytesPerElement = ResetBytes(0, 0, Len(tilesArray), canvasW * canvasH)

\* a second pass has returned on a label grid an earlier pass left labelled
C8_Witness ==
  /\ PassEnded
  /\ running = "none"
  /\ ops = MaxOps
  /\ pixelsBefore # <<>>
  /\ pixelsBefore # pixelsArray

FramePixels(f) == {p \in Pixels : InBox(f, p)}

\* C9: a renderRecursive call with a candidate subset of exactly one site
\* gives every pixel of its region, rows minY..maxY and columns minX..maxX
\* inclusive, that site's colour and that site's label.
C9_SolidFillsRegion ==
  lastCall.kind = "solid" =>
    \A p \in FramePixels(lastCall.frame) :
      /\ data[p + 1] = tilesArray[lastCall.frame.tilesSubset[1] + 1].color
      /\ pixelsArray[p + 1] = lastCall.frame.tilesSubset[1]

\* the smallest element width, in bytes, whose value range exceeds n
SmallestWidth(n) ==
  IF Pow(2, 8) > n THEN 1 ELSE IF Pow(2, 16) > n THEN 2 ELSE 4

\* C10: the label grid of a pass over N sites has the smallest element width
\* whose value range exceeds N, and the sentinel is that width's maximum.
C10_SmallestWidth ==
  bytesPerElement # 0 =>
    /\ bytesPerElement = SmallestWidth(numTiles)
    /\ unsetId = Pow(2, 8 * bytesPerElement) - 1

\* C11: the array placeTiles returned holds exactly numTiles sites, each
\* with id equal to its index and a position inside the canvas asked for, no
\* two of them on one pixel, also when an earlier call used another numTiles.
C11_PlacedSites ==
  (tilesArray # <<>> /\ running # "placing") =>
    /\ Len(tilesArray) = numTiles
    /\ \A k \in 1..Len(tilesArray) :
         /\ tilesArray[k].i = k - 1
         /\ tilesArray[k].x \in 0..(canvasW - 1)
         /\ tilesArray[k].y \in 0..(canvasH - 1)
    /\ \A j, k \in 1..Len(tilesArray) :
         (tilesArray[j].x = tilesArray[k].x /\ tilesArray[j].y = tilesArray[k].y)
           => j = k

\* C12: placing numTiles >= width * height sites neither returns a site
\* array nor loops forever in the rejection sampler, and placing fewer
\* sites never fails.
C12_PlacementError ==
  /\ running # "placing"
  /\ (tilesArray # <<>> /\ running # "placing")
       => numTiles < canvasW * canvasH

\* the candidate subset of the renderRecursive call about to be executed
Candidates == Head(stack).tilesSubset

\* the distance from pixel p to the k-th candidate in iteration order
CandidateDist(k, p) == SiteDist(Candidates[k] + 1, p)

\* the smallest distance from pixel p to a candidate
MinCandidateDist(p) ==
  LET dists == {CandidateDist(k, p) : k \in 1..Len(Candidates)}
  IN  CHOOSE d \in dists : \A e \in dists : d <= e

\* the candidate at the smallest distance that every candidate before it in
\* iteration order is farther than
FirstNearestCandidate(p) ==
  LET d == MinCandidateDist(p)
  IN  Candidates[CHOOSE k \in 1..Len(Candidates) :
                   /\ CandidateDist(k, p) = d
                   /\ \A j \in 1..(k - 1) : CandidateDist(j, p) > d]

\* calculatePixel applied to pixel p with the candidate subset of the call
CalculatedPixel(p) ==
  calculatePixel(Machine, PixelX(p), PixelY(p), p, Candidates)

\* C17: calculatePixel on an unset pixel takes the candidate at the smallest
\* distance, the first in iteration order among equals, stores its id in
\* the label grid, sets the pixel to its colour, and returns its id.
C17_CalculatePixelFirstNearest ==
  (Rendering /\ Candidates # <<>>) =>
    \A p \in Pixels :
      IsUnset(pixelsArray[p + 1]) =>
        LET r == CalculatedPixel(p)
            site == tilesArray[FirstNearestCandidate(p) + 1]
        IN  /\ r.ret = site.i
            /\ r.m.pixels = [pixelsArray EXCEPT ![p + 1] = site.i]
            /\ r.m.data = [data EXCEPT ![p + 1] = site.color]
            /\ ~Stopped(r.m)

\* a call is pending whose subset is not in id order and holds two
\* candidates at the same smallest distance from an unset pixel, the first
\* of them not the one with the lowest id
C17_Witness ==
  /\ Rendering
  /\ \E p \in Pixels :
       /\ IsUnset(pixelsArray[p + 1])
       /\ \E j, k \in 1..Len(Candidates) :
            /\ j < k
            /\ Candidates[j] > Candidates[k]
            /\ Candidates[j] = FirstNearestCandidate(p)
            /\ CandidateDist(j, p) = CandidateDist(k, p)

\* C18: a step of a rasterization pass changes a label-grid entry only from
\* the unset sentinel to a site id; an entry that holds a site id is never
\* overwritten, whatever range fills and boundary scans the step makes.
C18_LabelsWrittenOnce ==
  [][(running = "draw" /\ stack # <<>>) =>
       \A p \in Pixels :
         pixelsArray'[p + 1] # pixelsArray[p + 1] =>
           /\ IsUnset(pixelsArray[p + 1])
           /\ pixelsArray'[p + 1] \in 0..(Len(tilesArray) - 1)
           /\ ~IsUnset(pixelsArray'[p + 1])]_vars

\* a call of the pass has labelled a pixel that is no capital, and has
\* coloured by a range fill a pixel whose label is still unset
C18_Witness ==
  /\ running = "draw"
  /\ lastCall.kind \in {"small", "split"}
  /\ \E p \in Pixels :
       /\ ~IsUnset(pixelsArray[p + 1])
       /\ \A t \in Sites :
            tilesArray[t].x # PixelX(p) \/ tilesArray[t].y # PixelY(p)
  /\ \E q \in Pixels : IsUnset(pixelsArray[q + 1]) /\ data[q + 1] # Black

\* site L is a candidate of the scan and no candidate is nearer to the
\* pixel at coordinate c of the line
NearestCandidate(m, s, c, L) ==
  /\ \E k \in 1..Len(s.tilesSubset) : s.tilesSubset[k] = L
  /\ \A k \in 1..Len(s.tilesSubset) :
       distance(m.metric, LineX(s, c), LineY(s, c), m.tiles[L + 1].x,
                m.tiles[L + 1].y)
         <= distance(m.metric, LineX(s, c), LineY(s, c),
                     m.tiles[s.tilesSubset[k] + 1].x,
                     m.tiles[s.tilesSubset[k] + 1].y)

\* the search from near, labelled L, towards far stopped at the end of the
\* run of L: stop is labelled L, the pixel after it (if the line goes on) is
\* not, and L is the nearest candidate of every pixel from near to stop
ExactRun(m, s, near, far, stop, L) ==
  /\ near <= stop /\ stop <= far
  /\ ReadPixel(m.pixels, LineIndex(m, s, stop)) = L
  /\ stop < far => ReadPixel(m.pixels, LineIndex(m, s, stop + 1)) # L
  /\ \A c \in near..stop : NearestCandidate(m, s, c, L)

\* every search of one scan line finds the exact end of its run; the scan
\* is a row of the small-box terminal ("row": while (left < maxX), fill), a
\* getBoundaryTilesHorizontal line ("horizontal": while (left <= maxX),
\* fill) or a getBoundaryTilesVertical line ("vertical": while (top < maxY))
RECURSIVE SearchesExact(_, _, _, _, _)
SearchesExact(kind, m, s, near, far) ==
  IF Stopped(m) \/ ~(near < far \/ (kind = "horizontal" /\ near = far))
    THEN TRUE
  ELSE LET a == calculateOnLine(m, s, near)
           r == findRunEnd(a.m, s, near, far, a.ret)
       IN  /\ ~Stopped(r.m) => ExactRun(r.m, s, near, far, r.right, a.ret)
           /\ SearchesExact(kind,
                            IF kind = "vertical" THEN r.m
                            ELSE fillRun(r, s, near, a.ret),
                            s, r.right + 1, far)

\* ... for every row of the small-box terminal on frame f from row y on
RECURSIVE SmallBoxSearchesExact(_, _, _)
SmallBoxSearchesExact(m, f, y) ==
  IF Stopped(m) \/ ~(y < f.maxY) THEN TRUE
  ELSE /\ SearchesExact("row", m, Scan(TRUE, y, f.tilesSubset), f.minX,
                        f.maxX)
       /\ SmallBoxSearchesExact(rowScan(m, f, y, f.minX), f, y + 1)

\* ... for the scan of the cut line, the first scan of the recursive case
CutLineSearchesExact(m, f) ==
  IF boxWidth(f) > boxHeight(f)
    THEN SearchesExact("vertical", m, Scan(FALSE, MiddleX(f), f.tilesSubset),
                       f.minY + 1, f.maxY)
    ELSE SearchesExact("horizontal", m,
                       Scan(TRUE, MiddleY(f), f.tilesSubset), f.minX, f.maxX)

\* C19: every boundary transition search of the call about to be executed
\* (the row scans of the small-box terminal, the horizontal or vertical scan
\* of the cut line) that starts at a near end labelled L stops at a
\* coordinate labelled L whose successor on the line is not labelled L, and
\* L is the nearest candidate of every pixel from the near end to the stop.
C19_SearchStopsAtRunEnd ==
  (running = "draw" /\ stack # <<>> /\ ~IsSolid(Head(stack))) =>
    IF IsSmall(Head(stack))
      THEN SmallBoxSearchesExact(Machine, Head(stack), Head(stack).minY)
      ELSE CutLineSearchesExact(Machine, Head(stack))

\* the elements of a Set kept as a sequence
Elements(set) == {set[k] : k \in 1..Len(set)}

\* a boundary scan with result r of the pixels near..far of line s returned
\* a set that holds an owner of every pixel of the segment and only sites
\* that own a pixel of the segment
FoundOwners(r, s, near, far) ==
  /\ r.returned
  /\ \A c \in near..far :
       NearestSites(LineIndex(Machine, s, c)) \cap Elements(r.set) # {}
  /\ \A t \in Elements(r.set) :
       \E c \in near..far : t \in NearestSites(LineIndex(Machine, s, c))

\* getBoundaryTilesVertical(x, minY, maxY) called in the present state
VerticalScanExact(f, x) ==
  FoundOwners(getBoundaryTilesVertical(Machine, x, f.minY, f.maxY,
                                       f.tilesSubset, <<>>),
              Scan(FALSE, x, f.tilesSubset), f.minY, f.maxY)

\* getBoundaryTilesHorizontal(y, minX, maxX) called in the present state
HorizontalScanExact(f, y) ==
  FoundOwners(getBoundaryTilesHorizontal(Machine, y, f.minX, f.maxX,
                                         f.tilesSubset, <<>>),
              Scan(TRUE, y, f.tilesSubset), f.minX, f.maxX)

\* C20: the boundary scans of the call about to be executed, the one of the
\* cut line and the one of the box's left (or top) edge, the line x = 0
\* (y = 0) included, return exactly the sites that own at least one pixel
\* of the scanned segment, end pixels included.
C20_BoundaryScanFindsOwners ==
  (running = "draw" /\ stack # <<>> /\ DistinctPositions
     /\ ~IsSolid(Head(stack)) /\ ~IsSmall(Head(stack))) =>
    IF boxWidth(Head(stack)) > boxHeight(Head(stack))
      THEN /\ VerticalScanExact(Head(stack), MiddleX(Head(stack)))
           /\ VerticalScanExact(Head(stack), Head(stack).minX)
      ELSE /\ HorizontalScanExact(Head(stack), MiddleY(Head(stack)))
           /\ HorizontalScanExact(Head(stack), Head(stack).minY)

(***************************************************************************)
(* antialias.js.  An entry of borderPixels is a sequence of tile indexes;  *)
(* <<>> stands for undefined (no defined entry is ever empty).             *)
(***************************************************************************)
\* add: push e unless the array includes it
add(arr, e) ==
  IF \E k \in 1..Len(arr) : arr[k] = e THEN arr ELSE Append(arr, e)

\* the pixel index of coordinate c on a row (base = rowOffset, stride = 1)
\* or a column (base = x, stride = width)
NbrIndex(base, stride, c) == base + stride * c

\* calculateNbrTileIndexes, the do { ... } while (...) search between
\* near = seg[1] and far = seg[2]: returns [right, strayed], strayed telling
\* that a probed coordinate was outside [near, far]
RECURSIVE nbrSearchLoop(_, _, _, _, _, _, _, _)

\* ... || pixels[right + 1] === leftTileIndex
nbrSearchWhileNext(pixels, base, stride, L, seg, right, step, strayed) ==
  IF ReadPixel(pixels, NbrIndex(base, stride, right) + stride) = L
    THEN nbrSearchLoop(pixels, base, stride, L, seg, right, step,
                       strayed \/ Strays(seg, right + 1))
    ELSE [right |-> right, strayed |-> strayed \/ Strays(seg, right + 1)]

\* while (pixels[right] !== leftTileIndex || ...
nbrSearchWhile(pixels, base, stride, L, seg, right, step, strayed) ==
  IF ReadPixel(pixels, NbrIndex(base, stride, right)) # L
    THEN nbrSearchLoop(pixels, base, stride, L, seg, right, step,
                       strayed \/ Strays(seg, right))
    ELSE nbrSearchWhileNext(pixels, base, stride, L, seg, right, step,
                            strayed \/ Strays(seg, right))

nbrSearchLoop(pixels, base, stride, L, seg, right, step, strayed) ==
  nbrSearchWhile(pixels, base, stride, L, seg,
                 IF ReadPixel(pixels, NbrIndex(base, stride, right)) = L
                   THEN right + step ELSE right - step,
                 HalveStep(step), strayed)

\* let right = far; if (pixels[right] !== leftTileIndex) { step = ...; do }
nbrRunEnd(pixels, base, stride, near, far) ==
  IF ReadPixel(pixels, NbrIndex(base, stride, far))
       # ReadPixel(pixels, NbrIndex(base, stride, near))
    THEN nbrSearchLoop(pixels, base, stride,
                       ReadPixel(pixels, NbrIndex(base, stride, near)),
                       <<near, far>>, far, Max((far - near) \div 2, 1), FALSE)
    ELSE [right |-> far, strayed |-> FALSE]

\* borderPixels[i] = add(borderPixels[i] || [], pixels[i + 1]);
\* borderPixels[i + 1] = [pixels[i]]
markRow(bp, pixels, i) ==
  [bp EXCEPT ![i + 1] = add(bp[i + 1], ReadPixel(pixels, i + 1)),
             ![i + 2] = <<ReadPixel(pixels, i)>>]

\* borderPixels[i] = add(borderPixels[i] || [], pixels[i + width]);
\* borderPixels[i + width] = add(borderPixels[i + width] || [], pixels[i])
markColumn(bp, pixels, width, i) ==
  [bp EXCEPT ![i + 1] = add(bp[i + 1], ReadPixel(pixels, i + width)),
             ![i + width + 1] = add(bp[i + width + 1], ReadPixel(pixels, i))]

\* "search for borders row by row": while (left < width - 1)
RECURSIVE rowBorders(_, _, _, _, _)

rowBordersNext(bp, pixels, width, rowOffset, right) ==
  rowBorders(markRow(bp, pixels, right + rowOffset), pixels, width, rowOffset,
             right + 1)

rowBorders(bp, pixels, width, rowOffset, left) ==
  IF ~(left < width - 1) THEN bp
  ELSE rowBordersNext(bp, pixels, width, rowOffset,
                      nbrRunEnd(pixels, rowOffset, 1, left, width - 2).right)

RECURSIVE allRowBorders(_, _, _, _, _)
allRowBorders(bp, pixels, width, height, y) ==
  IF ~(y < height) THEN bp
  ELSE allRowBorders(rowBorders(bp, pixels, width, width * y, 0), pixels,
                     width, height, y + 1)

\* "search for borders column by column": while (top < height - 1)
RECURSIVE columnBorders(_, _, _, _, _, _)

columnBordersNext(bp, pixels, width, height, x, bottom) ==
  columnBorders(markColumn(bp, pixels, width, x + width * bottom), pixels,
                width, height, x, bottom + 1)

columnBorders(bp, pixels, width, height, x, top) ==
  IF ~(top < height - 1) THEN bp
  ELSE columnBordersNext(bp, pixels, width, height, x,
                         nbrRunEnd(pixels, x, width, top, height - 2).right)

RECURSIVE allColumnBorders(_, _, _, _, _)
allColumnBorders(bp, pixels, width, height, x) ==
  IF ~(x < width) THEN bp
  ELSE allColumnBorders(columnBorders(bp, pixels, width, height, x, 0),
                        pixels, width, height, x + 1)

\* borderPixels.length = width * height without the fill(): the entries of
\* the array used before are kept
resetBorderPixelsNoFill(old, width, height) ==
  [k \in 1..(width * height) |-> IF k <= Len(old) THEN old[k] ELSE <<>>]

\* new Array(width * height), or, old being the array used before,
\* length = width * height and fill(): every entry undefined
resetBorderPixels(old, width, height) ==
  [k \in 1..(width * height) |-> <<>>]

\* calculateNbrTileIndexes: the array of neighbouring tile indexes
calculateNbrTileIndexes(old, pixels, width, height) ==
  allColumnBorders(
    allRowBorders(resetBorderPixels(old, width, height), pixels, width,
                  height, 0),
    pixels, width, height, 0)

\* SUBPIXEL_OFFSETS in thirds of a pixel
SUBPIXEL_OFFSETS ==
  <<<<0 - 1, 0 - 1>>, <<0, 0 - 1>>, <<1, 0 - 1>>,
    <<0 - 1, 0>>, <<0, 0>>, <<1, 0>>,
    <<0 - 1, 1>>, <<0, 1>>, <<1, 1>>>>

\* the distance from a subpixel to a tile, all coordinates in thirds
subpixelDist(m, sx, sy, tile) == distance(m, sx, sy, 3 * tile.x, 3 * tile.y)

\* getSubpixelTileIndices for one offset with "dist <= minDist": the last
\* tile at the minimum distance
subpixelTileIndexLast(m, sx, sy, tiles, indexes) ==
  indexes[CHOOSE k \in 1..Len(indexes) :
            /\ \A j \in 1..Len(indexes) :
                 subpixelDist(m, sx, sy, tiles[indexes[k] + 1])
                   <= subpixelDist(m, sx, sy, tiles[indexes[j] + 1])
            /\ \A j \in (k + 1)..Len(indexes) :
                 subpixelDist(m, sx, sy, tiles[indexes[j] + 1])
                   # subpixelDist(m, sx, sy, tiles[indexes[k] + 1])]

\* getSubpixelTileIndices for one offset: the pixel's own tile unless a
\* neighbouring tile is strictly nearer, the first such at the minimum
subpixelTileIndex(m, sx, sy, tiles, indexes) ==
  indexes[CHOOSE k \in 1..Len(indexes) :
            /\ \A j \in 1..Len(indexes) :
                 subpixelDist(m, sx, sy, tiles[indexes[k] + 1])
                   <= subpixelDist(m, sx, sy, tiles[indexes[j] + 1])
            /\ \A j \in 1..(k - 1) :
                 subpixelDist(m, sx, sy, tiles[indexes[j] + 1])
                   # subpixelDist(m, sx, sy, tiles[indexes[k] + 1])]

getSubpixelTileIndices(m, x, y, tiles, tileIndex, nbrTileIndices) ==
  [o \in 1..Len(SUBPIXEL_OFFSETS) |->
     subpixelTileIndex(m, 3 * x + SUBPIXEL_OFFSETS[o][1],
                       3 * y + SUBPIXEL_OFFSETS[o][2], tiles,
                       <<tileIndex>> \o nbrTileIndices)]

\* the sum of channel c over the subpixels' tile colours
RECURSIVE channelSum(_, _, _, _)
channelSum(subpixels, tiles, c, k) ==
  IF k > Len(subpixels) THEN 0
  ELSE tiles[subpixels[k] + 1].color[c] + channelSum(subpixels, tiles, c, k + 1)

\* the conversion of r / n on assignment to a Uint8ClampedArray element:
\* the nearest integer, the even one of two equally near
roundToUint8Clamped(r, n) ==
  IF 2 * (r % n) < n \/ (2 * (r % n) = n /\ (r \div n) % 2 = 0)
    THEN r \div n
    ELSE r \div n + 1

\* the sum over the subpixels of channel c divided by n, fraction dropped
RECURSIVE channelSumDivided(_, _, _, _, _)
channelSumDivided(subpixels, tiles, c, k, n) ==
  IF k > Len(subpixels) THEN 0
  ELSE tiles[subpixels[k] + 1].color[c] \div n
         + channelSumDivided(subpixels, tiles, c, k + 1, n)

\* averageSubpixels with every colour value divided before it is added
averageSubpixelsDivided(subpixels, tiles) ==
  [c \in 1..3 |-> channelSumDivided(subpixels, tiles, c, 1, Len(subpixels))]

\* averageSubpixels
averageSubpixels(subpixels, tiles) ==
  [c \in 1..3 |->
     roundToUint8Clamped(channelSum(subpixels, tiles, c, 1), Len(subpixels))]

\* renderAntialiasedBorders, state === bordersKnownState: the subpixel
\* arrays kept in borderPixels are averaged with the present colours
antialiasKnown(bp, tiles, d) ==
  [k \in 1..Len(d) |->
     IF bp[k] # <<>> THEN averageSubpixels(bp[k], tiles) ELSE d[k]]

\* renderAntialiasedBorders, borders unknown: borderPixels after the pass
sampleBorders(m, nbrs, tiles, pixels, width) ==
  [k \in 1..Len(nbrs) |->
     IF nbrs[k] # <<>>
       THEN getSubpixelTileIndices(m, (k - 1) % width, (k - 1) \div width,
                                   tiles, pixels[k], nbrs[k])
       ELSE <<>>]

(***************************************************************************)
(* The antialiasing pass on its own.  The voronoi.js that calls            *)
(* renderAntialiasedBorders is not among the sources: a diagram state is   *)
(* the result the specification gives for rasterize and recolor, a label   *)
(* grid that holds for every pixel the nearest site (lowest id among       *)
(* ties) and a surface that shows every pixel in its site's colour.        *)
(***************************************************************************)
AaSizes == {<<AaWidth, AaHeight>>, <<AaWidth - 1, AaHeight - 1>>}

AaPool(width, height) ==
  <<<<0, 0>>, <<width - 1, height - 1>>, <<1, 1>>, <<width - 1, 0>>>>

AaPlacements(n, width, height) ==
  {[i \in 1..n |->
      AaPool(width, height)[((k + i - 1) % Len(AaPool(width, height))) + 1]] :
     k \in 0..(Len(AaPool(width, height)) - 1)}

\* rasterize: every pixel labelled with its nearest site, lowest id first
rasterizedLabels(m, tiles, width, height) ==
  [k \in 1..(width * height) |->
     (CHOOSE t \in 1..Len(tiles) :
        /\ \A u \in 1..Len(tiles) :
             distance(m, (k - 1) % width, (k - 1) \div width, tiles[t].x,
                      tiles[t].y)
               <= distance(m, (k - 1) % width, (k - 1) \div width, tiles[u].x,
                           tiles[u].y)
        /\ \A u \in 1..(t - 1) :
             distance(m, (k - 1) % width, (k - 1) \div width, tiles[u].x,
                      tiles[u].y)
               # distance(m, (k - 1) % width, (k - 1) \div width, tiles[t].x,
                          tiles[t].y)) - 1]

\* the surface rasterize and recolor leave: every pixel in its site's colour
flatSurface(tiles, pixels) ==
  [k \in 1..Len(pixels) |-> tiles[pixels[k] + 1].color]

InitAntialias ==
  /\ UtilIdle
  /\ AntialiasIdle
  /\ MainIdle
  /\ metric \in Metrics
  /\ RasterIdle

\* drawRandomVoronoiDiagram returns a new diagram state
NewDiagram ==
  /\ ops < MaxDiagrams
  /\ \E size \in AaSizes, n \in 1..MaxTiles, seed \in Seeds :
       \E capitals \in AaPlacements(n, size[1], size[2]) :
         \E tiles \in {placeTiles(<<>>, n, capitals, seed)} :
           \E labels \in {rasterizedLabels(metric, tiles, size[1], size[2])} :
             /\ tilesArray' = tiles
             /\ numTiles' = n
             /\ canvasW' = size[1]
             /\ canvasH' = size[2]
             /\ pixelsArray' = labels
             /\ data' = flatSurface(tiles, labels)
  /\ ops' = ops + 1
  /\ bordersKnownState' = FALSE
  /\ surfaceBefore' = <<>>
  /\ lastCall' = NoCall
  /\ UNCHANGED <<metric, bytesPerElement, unsetId, stack, running, last,
                 pixelsBefore, borderPixels, utilVars, mainVars>>

\* recolor on the present diagram state: new colours, the surface
\* re-rendered from the label grid
RecolorDiagram ==
  /\ tilesArray # <<>>
  /\ \E seed \in Seeds :
       \E tiles \in {[i \in 1..Len(tilesArray) |->
                        [tilesArray[i] EXCEPT
                           !.color = RandColor(MaxSeed + seed, i - 1)]]} :
         /\ tilesArray' = tiles
         /\ data' = flatSurface(tiles, pixelsArray)
  /\ surfaceBefore' = <<>>
  /\ lastCall' = NoCall
  /\ UNCHANGED <<metric, pixelsArray, bytesPerElement, unsetId, canvasW,
                 canvasH, stack, running, last, numTiles, ops, pixelsBefore,
                 borderPixels, bordersKnownState, utilVars, mainVars>>

\* renderAntialiasedBorders(state)
RenderAntialiasedBorders ==
  /\ tilesArray # <<>>
  /\ surfaceBefore' = data
  /\ lastCall' = [kind |-> "antialias", known |-> bordersKnownState]
  /\ \E bp \in {IF bordersKnownState THEN borderPixels
                 ELSE sampleBorders(metric,
                                    calculateNbrTileIndexes(borderPixels,
                                                            pixelsArray,
                                                            canvasW, canvasH),
                                    tilesArray, pixelsArray, canvasW)} :
       /\ borderPixels' = bp
       /\ data' = antialiasKnown(bp, tilesArray, data)
  /\ bordersKnownState' = TRUE
  /\ UNCHANGED <<metric, tilesArray, pixelsArray, bytesPerElement, unsetId,
                 canvasW, canvasH, stack, running, last, numTiles, ops,
                 pixelsBefore, utilVars, mainVars>>

NextAntialias ==
  \/ NewDiagram
  \/ RecolorDiagram
  \/ RenderAntialiasedBorders

SpecAntialias == InitAntialias /\ [][NextAntialias]_vars

\* the pixels next to p in its row and its column
FourNeighbours(p) ==
  {q \in Pixels :
     Abs(PixelX(q) - PixelX(p)) + Abs(PixelY(q) - PixelY(p)) = 1}

SameLabelAround(p) ==
  \A q \in FourNeighbours(p) : pixelsArray[q + 1] = pixelsArray[p + 1]

RawMetrics ==
  {[kind |-> "missing", val |-> 0], [kind |-> "text", val |-> 0]}
    \cup {[kind |-> "number", val |-> v] : v \in (0 - 1)..MaxExponent}

Coords == 0..MaxCoord

InitDistance ==
  /\ rawMetric \in RawMetrics
  /\ point = <<0, 0, 0, 0>>
  /\ distValue = Undefined
  /\ ImageIdle
  /\ AntialiasIdle
  /\ MainIdle
  /\ metric = 2
  /\ RasterIdle

\* distance(x1, y1, x2, y2)
CallDistance ==
  /\ \E x1, y1, x2, y2 \in Coords :
       /\ point' = <<x1, y1, x2, y2>>
       /\ distValue' = distanceFor(ToNumber(rawMetric), x1, y1, x2, y2)
  /\ UNCHANGED <<rawMetric, imageVars, rasterVars, antialiasVars, mainVars>>

NextDistance == CallDistance

SpecDistance == InitDistance /\ [][NextDistance]_vars

\* |dx|^m + |dy|^m
PowerSum(m, x1, y1, x2, y2) == Pow(Abs(x1 - x2), m) + Pow(Abs(y1 - y2), m)

\* C13: distance returns |dx|^m + |dy|^m for the configured exponent m >= 1
\* (taxicab, squared Euclidean, cubic, quartic, general) and the squared
\* Euclidean dx^2 + dy^2 for a missing, non-numeric, zero or negative one.
C13_DistanceFamilies ==
  distValue # Undefined =>
    distValue =
      PowerSum(IF rawMetric.kind = "number" /\ rawMetric.val >= 1
                 THEN rawMetric.val ELSE 2,
               point[1], point[2], point[3], point[4])

\* the cubic distance was computed for a point left of and above the other
C13_Witness ==
  /\ rawMetric = [kind |-> "number", val |-> 3]
  /\ point[1] < point[3]
  /\ point[2] < point[4]
  /\ distValue = PowerSum(3, point[1], point[2], point[3], point[4])

(***************************************************************************)
(* The page script (main.js, and its later version part_002 with the       *)
(* animation): every input event hands its render function to doRender.    *)
(* A render function (drawRandomVoronoiDiagram, recolor, rerender) is      *)
(* asynchronous: it is in flight from its call to the resolution of its    *)
(* promise, and events are handled in between.                             *)
(***************************************************************************)

\* the request doRender is running: the last one whose function it invoked
Current == IF started = <<>> THEN 0 ELSE started[Len(started)]

\* who runs the loop of test() or animateImage(): the script itself (0) when
\* main.js calls test() directly, else the request doRender is running
LoopOwner == IF version = "main.js" THEN 0 ELSE Current

\* the functions the event handlers pass to doRender: a new diagram, recolor,
\* rerender, the upload handler's function when no file was chosen (it
\* returns nothing), and animateImage in the later version
SingleRenders == {"draw", "recolor", "rerender"}

Fns ==
  SingleRenders \cup {"noop"}
    \cup (IF version = "part_002" THEN {"animate"} ELSE {})

\* doRender's else branch for request id, inFl being the renders in flight
\* and phase, left the loop state when fn does not start a loop:
\* renderInProgress = true; fn() runs up to its first suspension
StartFn(id, kind, inFl, phase, left) ==
  /\ started' = Append(started, id)
  /\ CASE kind = "noop" ->
            \* await undefined resumes before any other event is handled
            /\ renderInProgress' = FALSE
            /\ inFlight' = inFl
            /\ loopPhase' = phase
            /\ loopLeft' = left
       [] kind = "animate" ->
            \* animateImage: requestAnimationFrame(tick)
            /\ renderInProgress' = TRUE
            /\ inFlight' = inFl
            /\ loopPhase' = "frame"
            /\ \E n \in 1..MaxFrames : loopLeft' = n
       [] OTHER ->
            /\ renderInProgress' = TRUE
            /\ inFlight' = inFl \cup {id}
            /\ loopPhase' = phase
            /\ loopLeft' = left

\* doRender after 'await fn()': renderInProgress = false; if (debouncedFn)
\* { fn = debouncedFn; debouncedFn = null; await doRender(fn); }
Finish(inFl, phase, left) ==
  IF debouncedFn = 0
    THEN /\ renderInProgress' = FALSE
         /\ inFlight' = inFl
         /\ loopPhase' = phase
         /\ loopLeft' = left
         /\ UNCHANGED <<debouncedFn, started>>
    ELSE /\ debouncedFn' = 0
         /\ StartFn(debouncedFn, requestKind[debouncedFn], inFl, phase, left)

\* doRender(fn), called by an event handler
doRender(fn) ==
  /\ Len(requestKind) < MaxRequests
  /\ requestKind' = Append(requestKind, fn)
  /\ IF renderInProgress
       THEN /\ debouncedFn' = Len(requestKind) + 1
            /\ replaced' = replaced \cup (IF debouncedFn = 0 THEN {}
                                                             ELSE {debouncedFn})
            /\ UNCHANGED <<renderInProgress, inFlight, started, loopPhase,
                           loopLeft>>
       ELSE /\ StartFn(Len(requestKind) + 1, fn, inFlight, loopPhase, loopLeft)
            /\ UNCHANGED <<debouncedFn, replaced>>
  /\ UNCHANGED <<testMode, version, rasterVars, utilVars, antialiasVars>>

\* the page after its first diagram: the handlers are installed and, in test
\* mode, test(iterations) has begun its first diagram -- called directly by
\* main.js, through doRender by part_002
InitMain ==
  /\ UtilIdle
  /\ AntialiasIdle
  /\ metric = 2
  /\ RasterIdle
  /\ version \in {"main.js", "part_002"}
  /\ testMode \in BOOLEAN
  /\ debouncedFn = 0
  /\ replaced = {}
  /\ IF testMode
       THEN /\ loopPhase = "draw"
            /\ loopLeft \in 0..(MaxIterations - 1)
            /\ IF version = "main.js"
                 THEN /\ renderInProgress = FALSE
                      /\ requestKind = <<>>
                      /\ started = <<>>
                      /\ inFlight = {0}
                 ELSE /\ renderInProgress = TRUE
                      /\ requestKind = <<"test">>
                      /\ started = <<1>>
                      /\ inFlight = {1}
       ELSE /\ loopPhase = "off"
            /\ loopLeft = 0
            /\ renderInProgress = FALSE
            /\ requestKind = <<>>
            /\ started = <<>>
            /\ inFlight = {}

\* an input event whose handler calls doRender
DoRender == \E fn \in Fns : doRender(fn)

\* the promise of the render function doRender awaits is resolved
RenderCompletes ==
  /\ renderInProgress
  /\ started # <<>>
  /\ requestKind[Current] \in SingleRenders
  /\ Current \in inFlight
  /\ Finish(inFlight \ {Current}, loopPhase, loopLeft)
  /\ UNCHANGED <<requestKind, replaced, testMode, version, rasterVars,
                 utilVars, antialiasVars>>

\* the promise of the render function doRender awaits is rejected (the
\* function threw): 'await fn()' throws inside doRender, whose promise is
\* rejected in turn; the statements after the await are not executed
RenderFails ==
  /\ renderInProgress
  /\ started # <<>>
  /\ requestKind[Current] \in SingleRenders
  /\ Current \in inFlight
  /\ inFlight' = inFlight \ {Current}
  /\ UNCHANGED <<renderInProgress, debouncedFn, started, loopPhase, loopLeft,
                 requestKind, replaced, testMode, version, rasterVars,
                 utilVars, antialiasVars>>

\* the diagram test() or animateImage() awaits is drawn: test() waits for the
\* next animation frame, animateImage() too unless it was its last diagram
LoopDrawCompletes ==
  /\ loopPhase = "draw"
  /\ IF version = "part_002" /\ requestKind[Current] = "animate"
          /\ loopLeft = 0
       THEN Finish(inFlight \ {LoopOwner}, "off", 0)
       ELSE /\ inFlight' = inFlight \ {LoopOwner}
            /\ loopPhase' = "frame"
            /\ UNCHANGED <<loopLeft, renderInProgress, debouncedFn, started>>
  /\ UNCHANGED <<requestKind, replaced, testMode, version, rasterVars,
                 utilVars, antialiasVars>>

\* the animation frame test() or animateImage() waits for: the next diagram
\* is begun, or test() returns
AnimationFrame ==
  /\ loopPhase = "frame"
  /\ IF loopLeft > 0
       THEN /\ inFlight' = inFlight \cup {LoopOwner}
            /\ loopLeft' = loopLeft - 1
            /\ loopPhase' = "draw"
            /\ UNCHANGED <<renderInProgress, debouncedFn, started>>
       ELSE IF version = "main.js"
              THEN /\ loopPhase' = "done"
                   /\ UNCHANGED <<loopLeft, inFlight, renderInProgress,
                                  debouncedFn, started>>
              ELSE Finish(inFlight, "off", 0)
  /\ UNCHANGED <<requestKind, replaced, testMode, version, rasterVars,
                 utilVars, antialiasVars>>

NextMain ==
  \/ DoRender
  \/ RenderCompletes
  \/ RenderFails
  \/ LoopDrawCompletes
  \/ AnimationFrame

SpecMain == InitMain /\ [][NextMain]_vars

\* C15: at most one render function (a new diagram, recolor or rerender) is
\* in flight at any time, whatever the order of the events, test mode
\* included.
C15_OneRenderInFlight == Cardinality(inFlight) <= 1

\* a step in which a handler calls doRender
Requested == Len(requestKind') = Len(requestKind) + 1

\* a step in which the function doRender awaits has completed
Completed ==
  /\ renderInProgress
  /\ requestKind' = requestKind
  /\ \/ ~renderInProgress'
     \/ Len(started') > Len(started)

\* C16: a request passed to doRender while a render is in flight is not
\* started but stored in place of the request stored before; when the
\* function doRender awaits completes, the stored request is started in that
\* very step (so before any later request); no request starts twice and no
\* replaced request ever starts.
C16_StoredRequestRunsNext ==
  [][/\ (Requested /\ inFlight # {}) =>
          /\ started' = started
          /\ debouncedFn' = Len(requestKind')
          /\ debouncedFn # 0 => debouncedFn \in replaced'
     /\ (Completed /\ debouncedFn # 0) =>
          /\ started' = Append(started, debouncedFn)
          /\ debouncedFn' = 0
     /\ \A i, j \in 1..Len(started') :
          /\ i # j => started'[i] # started'[j]
          /\ started'[i] \notin replaced']_vars

(***************************************************************************)
(* The candidate subsets of the two halves of the recursive case           *)
(***************************************************************************)
\* the call about to be executed is a recursive case of a rasterization pass
SplitPending ==
  /\ running = "draw"
  /\ stack # <<>>
  /\ ~IsSolid(Head(stack))
  /\ ~IsSmall(Head(stack))

\* the sites a boundary scan returned (none when it returned undefined)
ScanSet(r) == IF r.returned THEN Elements(r.set) ELSE {}

\* the sites found on column x, rows minY..maxY, by the call on frame f
FoundVertical(f, x, minY, maxY) ==
  ScanSet(getBoundaryTilesVertical(Machine, x, minY, maxY, f.tilesSubset,
                                   <<>>))

\* the sites found on row y, columns minX..maxX, by the call on frame f
FoundHorizontal(f, y, minX, maxX) ==
  ScanSet(getBoundaryTilesHorizontal(Machine, y, minX, maxX, f.tilesSubset,
                                     <<>>))

CutsVertically(f) == boxWidth(f) > boxHeight(f)

\* the sites found on the cut line of frame f
FoundOnCut(f) ==
  IF CutsVertically(f)
    THEN FoundVertical(f, MiddleX(f), f.minY, f.maxY)
    ELSE FoundHorizontal(f, MiddleY(f), f.minX, f.maxX)

\* the sites found on the three outer edges of half b of frame f
FoundOnOuterEdges(f, b) ==
  IF CutsVertically(f)
    THEN FoundVertical(f, IF b.minX = f.minX THEN b.minX ELSE b.maxX,
                       b.minY, b.maxY)
           \cup FoundHorizontal(f, b.minY, b.minX, b.maxX)
           \cup FoundHorizontal(f, b.maxY, b.minX, b.maxX)
    ELSE FoundHorizontal(f, IF b.minY = f.minY THEN b.minY ELSE b.maxY,
                         b.minX, b.maxX)
           \cup FoundVertical(f, b.minX, b.minY, b.maxY)
           \cup FoundVertical(f, b.maxX, b.minY, b.maxY)

\* the candidates of frame f whose capital lies strictly inside box b
CandidatesInside(f, b) ==
  {t \in Elements(f.tilesSubset) :
     StrictlyInside(b, tilesArray[t + 1].x, tilesArray[t + 1].y)}

\* the candidates of frame f on the side of the cut that half b is on: left
\* of (above) the cut line for the first half, on it or beyond for the second
CandidatesOnSide(f, b) ==
  {t \in Elements(f.tilesSubset) :
     IF CutsVertically(f)
       THEN (tilesArray[t + 1].x < MiddleX(f)) = (b.minX = f.minX)
       ELSE (tilesArray[t + 1].y < MiddleY(f)) = (b.minY = f.minY)}

PassStarts == running = "draw" /\ lastCall = NoCall

\* the sites of the current diagram: the numTiles sites just placed
DiagramSites == 1..numTiles

\* C22: when the divide-and-conquer of a rasterization pass starts, the
\* label grid holds site.id at index site.y * width + site.x for every site
\* of the current diagram and the unset sentinel at every other index,
\* whatever passes were made before.
C22_SeededGrid ==
  PassStarts =>
    /\ \A t \in DiagramSites :
         pixelsArray[tilesArray[t].x + canvasW * tilesArray[t].y + 1]
           = tilesArray[t].i
    /\ \A p \in Pixels :
         (\A t \in DiagramSites :
            tilesArray[t].x + canvasW * tilesArray[t].y # p)
           => pixelsArray[p + 1] = unsetId
    /\ \A t \in DiagramSites : tilesArray[t].i # unsetId

(***************************************************************************)
(* The cut of the recursive case                                           *)
(***************************************************************************)
\* the last step executed a recursive case and made its two calls
SplitDone ==
  /\ running \in {"draw", "recolor"}
  /\ lastCall.kind = "split"
  /\ Len(stack) >= 2

\* the region of a call
Region(f) == Box(f.minX, f.minY, f.maxX, f.maxY)

\* box b cut by the vertical line x = mid / the horizontal line y = mid
LeftRight(b, mid) ==
  <<Box(b.minX, b.minY, mid, b.maxY), Box(mid, b.minY, b.maxX, b.maxY)>>

TopBottom(b, mid) ==
  <<Box(b.minX, b.minY, b.maxX, mid), Box(b.minX, mid, b.maxX, b.maxY)>>

\* the two halves the recursive case on box b must make when a square box
\* is cut vertically (tieVertical) or horizontally
Halves(b, tieVertical) ==
  IF b.maxX - b.minX > b.maxY - b.minY
       \/ (tieVertical /\ b.maxX - b.minX = b.maxY - b.minY)
    THEN LeftRight(b, (b.minX + b.maxX) \div 2)
    ELSE TopBottom(b, (b.minY + b.maxY) \div 2)

\* the two calls on the stack are the halves, they cover the box of the
\* call that made them and share a line of pixels
CutInHalves(tieVertical) ==
  LET b == Region(lastCall.frame)
      h == Halves(b, tieVertical)
  IN  /\ Region(stack[1]) = h[1]
      /\ Region(stack[2]) = h[2]
      /\ \A p \in Pixels :
           InBox(b, p) <=> (InBox(Region(stack[1]), p)
                              \/ InBox(Region(stack[2]), p))
      /\ \E p \in Pixels :
           InBox(Region(stack[1]), p) /\ InBox(Region(stack[2]), p)

\* C23: the recursive case cuts its box across the longer side at the
\* integer midpoint, a box wider than tall by a vertical line, a box taller
\* than wide by a horizontal line, a square box by a vertical line; the
\* halves cover the box and both contain the cut line.
C23_CutLongerSideTieVertical == SplitDone => CutInHalves(TRUE)

\* C23 as the code has it: a box wider than tall is cut by a vertical line
\* at floor((minX + maxX) / 2), a box taller than wide and a square box by a
\* horizontal line at floor((minY + maxY) / 2); the halves cover the box and
\* both contain the cut line.
C23_CutLongerSideTieHorizontal == SplitDone => CutInHalves(FALSE)

\* a square box has been cut: its first half is wider than tall
C23_Witness ==
  /\ SplitDone
  /\ boxWidth(lastCall.frame) = boxHeight(lastCall.frame)
  /\ boxWidth(stack[1]) > boxHeight(stack[1])

(***************************************************************************)
(* The neighbour entries and the sub-pixel samples of the antialiasing     *)
(* pass                                                                    *)
(***************************************************************************)
\* the labels of the 4-neighbours of p that differ from p's own label
DifferingNeighbours(p) ==
  {pixelsArray[q + 1] : q \in FourNeighbours(p)} \ {pixelsArray[p + 1]}

\* calculateNbrTileIndexes on the label grid of the present diagram
NbrTileIndexes ==
  calculateNbrTileIndexes(borderPixels, pixelsArray, canvasW, canvasH)

\* C24: after calculateNbrTileIndexes on a fully resolved label grid the
\* entry of every pixel is the duplicate-free list of the labels of its
\* 4-neighbours that differ from its own label, and is absent when no
\* 4-neighbour differs; no entry holds the pixel's own label.
C24_NeighbourEntries ==
  tilesArray # <<>> =>
    LET nbrs == NbrTileIndexes
    IN  \A p \in Pixels :
          /\ Elements(nbrs[p + 1]) = DifferingNeighbours(p)
          /\ Cardinality(Elements(nbrs[p + 1])) = Len(nbrs[p + 1])

\* the distance, in thirds of a pixel, from sample o (0..8, row by row from
\* the offset (-1/3, -1/3)) of pixel p to site t
SampleDist(p, o, t) ==
  distance(metric, 3 * PixelX(p) + (o % 3) - 1, 3 * PixelY(p) + (o \div 3) - 1,
           3 * tilesArray[t + 1].x, 3 * tilesArray[t + 1].y)

\* the site sample o of pixel p must get: of the pixel's own label followed
\* by its recorded neighbours, the first at the smallest distance
ExpectedSample(p, o, nbrs) ==
  LET cands == <<pixelsArray[p + 1]>> \o nbrs
  IN  cands[CHOOSE k \in 1..Len(cands) :
              /\ \A j \in 1..Len(cands) :
                   SampleDist(p, o, cands[k]) <= SampleDist(p, o, cands[j])
              /\ \A j \in 1..(k - 1) :
                   SampleDist(p, o, cands[j]) > SampleDist(p, o, cands[k])]

\* channel c of the colours of the sites in samples, added up
RECURSIVE SampleChannelSum(_, _, _)
SampleChannelSum(samples, c, k) ==
  IF k > Len(samples) THEN 0
  ELSE tilesArray[samples[k] + 1].color[c]
         + SampleChannelSum(samples, c, k + 1)

\* v is the integer nearest to sum / n
NearestInteger(v, sum, n) == 2 * Abs(n * v - sum) <= n

FreshBorders ==
  sampleBorders(metric,
                calculateNbrTileIndexes(<<>>, pixelsArray, canvasW, canvasH),
                tilesArray, pixelsArray, canvasW)

Lines == [1..LineLen -> 0..(LineLabels - 1)]

\* the grid: pixel (x, y) carries line[x + 1] (horizontal) or line[y + 1]
LineGrid(line, horizontal) ==
  [k \in 1..(2 * LineLen) |->
     IF horizontal THEN line[((k - 1) % LineLen) + 1]
     ELSE line[((k - 1) \div 2) + 1]]

LineTiles ==
  placeTiles(<<>>, LineLabels, [i \in 1..LineLabels |-> <<i - 1, 0>>], 1)

InitLine ==
  /\ UtilIdle
  /\ AntialiasIdle
  /\ MainIdle
  /\ metric = 2
  /\ tilesArray = LineTiles
  /\ bytesPerElement = 1
  /\ unsetId = ResetUnsetId(LineLabels)
  /\ \E horizontal \in BOOLEAN :
       /\ canvasW = (IF horizontal THEN LineLen ELSE 2)
       /\ canvasH = (IF horizontal THEN 2 ELSE LineLen)
       /\ \E line \in Lines : pixelsArray = LineGrid(line, horizontal)
  /\ data = [k \in 1..(2 * LineLen) |-> Black]
  /\ stack = <<>>
  /\ running = "scan"
  /\ last = "none"
  /\ numTiles = LineLabels
  /\ ops = 0
  /\ pixelsBefore = <<>>
  /\ lastCall = NoCall

\* the state after a scan of the segment [near, far] of line number line
Scanned(kind, line, near, far, m) ==
  /\ pixelsArray' = m.pixels
  /\ data' = m.data
  /\ lastCall' = [kind |-> kind, line |-> line, near |-> near, far |-> far,
                  strayed |-> m.strayed, probes |-> m.probes]
  /\ running' = (IF m.hung THEN "hung"
                 ELSE IF m.threw THEN "threw" ELSE "scanned")
  /\ last' = running
  /\ UNCHANGED <<metric, tilesArray, bytesPerElement, unsetId, canvasW,
                 canvasH, stack, numTiles, ops, pixelsBefore, utilVars,
                 antialiasVars, mainVars>>

\* one row of the small-box terminal, voronoi.js 143-176
ScanRow ==
  /\ running = "scan"
  /\ canvasH = 2
  /\ \E y \in 0..1, minX \in 0..(canvasW - 2) :
       \E maxX \in (minX + 1)..(canvasW - 1) :
         \E m \in {rowScan(Machine,
                           Frame(minX, y, maxX, y + 1, AllTiles(tilesArray),
                                 TRUE),
                           y, minX)} :
           Scanned("row", y, minX, maxX, m)

\* getBoundaryTilesHorizontal on the row y = 1
ScanHorizontal ==
  /\ running = "scan"
  /\ canvasH = 2
  /\ \E minX \in 0..(canvasW - 1) :
       \E maxX \in minX..(canvasW - 1) :
         \E r \in {getBoundaryTilesHorizontal(Machine, 1, minX, maxX,
                                              AllTiles(tilesArray), <<>>)} :
           Scanned("horizontal", 1, minX, maxX, r.m)

\* getBoundaryTilesVertical on the column x = 1
ScanVertical ==
  /\ running = "scan"
  /\ canvasW = 2
  /\ \E minY \in 0..(canvasH - 1) :
       \E maxY \in minY..(canvasH - 1) :
         \E r \in {getBoundaryTilesVertical(Machine, 1, minY, maxY,
                                            AllTiles(tilesArray), <<>>)} :
           Scanned("vertical", 1, minY, maxY, r.m)

\* the searches of calculateNbrTileIndexes on one row, the while loop of
\* lines 75-100: TRUE when one of them strayed
RECURSIVE RowSearchStrayed(_, _, _, _)
RowSearchStrayed(pixels, width, rowOffset, left) ==
  IF ~(left < width - 1) THEN FALSE
  ELSE \/ nbrRunEnd(pixels, rowOffset, 1, left, width - 2).strayed
       \/ RowSearchStrayed(pixels, width, rowOffset,
                           nbrRunEnd(pixels, rowOffset, 1, left,
                                     width - 2).right + 1)

\* the same on one column, lines 104-132
RECURSIVE ColumnSearchStrayed(_, _, _, _, _)
ColumnSearchStrayed(pixels, width, height, x, top) ==
  IF ~(top < height - 1) THEN FALSE
  ELSE \/ nbrRunEnd(pixels, x, width, top, height - 2).strayed
       \/ ColumnSearchStrayed(pixels, width, height, x,
                              nbrRunEnd(pixels, x, width, top,
                                        height - 2).right + 1)

BorderSearchStrayed(pixels, width, height) ==
  \/ \E y \in 0..(height - 1) : RowSearchStrayed(pixels, width, width * y, 0)
  \/ \E x \in 0..(width - 1) : ColumnSearchStrayed(pixels, width, height, x, 0)

\* calculateNbrTileIndexes on the grid
DetectBorders ==
  /\ running = "scan"
  /\ borderPixels' = calculateNbrTileIndexes(borderPixels, pixelsArray,
                                             canvasW, canvasH)
  /\ lastCall' = [kind |-> "borders", line |-> 0, near |-> 0,
                  far |-> Max(canvasW, canvasH) - 2,
                  strayed |-> BorderSearchStrayed(pixelsArray, canvasW,
                                                  canvasH),
                  probes |-> 0]
  /\ running' = "scanned"
  /\ last' = running
  /\ UNCHANGED <<metric, tilesArray, pixelsArray, bytesPerElement, unsetId,
                 canvasW, canvasH, data, stack, numTiles, ops, pixelsBefore,
                 utilVars, bordersKnownState, surfaceBefore, mainVars>>

InitScan == Init \/ InitLine

NextScan ==
  \/ Next
  \/ ScanRow
  \/ ScanHorizontal
  \/ ScanVertical
  \/ DetectBorders

SpecScan == InitScan /\ [][NextScan]_vars

(***************************************************************************)
(* Termination and range of the searches                                   *)
(***************************************************************************)
ScanKinds == {"row", "horizontal", "vertical"}

\* the label of coordinate c of the line the last scan ran on
ScannedLabel(c) ==
  IF lastCall.kind = "vertical"
    THEN pixelsArray[lastCall.line + canvasW * c + 1]
    ELSE pixelsArray[c + canvasW * lastCall.line + 1]

\* the pixel index of coordinate c of that line
ScannedIndex(c) ==
  IF lastCall.kind = "vertical" THEN lastCall.line + canvasW * c
  ELSE c + canvasW * lastCall.line

\* the scanned segment carries a label twice with another label in between
NonContiguous ==
  \E a \in lastCall.near..lastCall.far :
    \E b \in (a + 1)..lastCall.far :
      \E c \in (b + 1)..lastCall.far :
        ScannedLabel(a) = ScannedLabel(c) /\ ScannedLabel(a) # ScannedLabel(b)

\* a call on box g is on a strictly smaller box than the call on box f
StrictlySmaller(g, f) ==
  /\ f.minX <= g.minX
  /\ g.maxX <= f.maxX
  /\ f.minY <= g.minY
  /\ g.maxY <= f.maxY
  /\ boxWidth(g) * boxHeight(g) < boxWidth(f) * boxHeight(f)

\* C27: the rasterization pass terminates: no search loop of a pass, and no
\* search loop of a scan on any arrangement of labels, non-contiguous runs
\* included, is still running after MaxProbes iterations, and the two
\* recursive calls of a recursive case are on strictly smaller boxes than the
\* call that makes them.
C27_PassAndSearchesTerminate ==
  /\ running # "hung"
  /\ SplitDone => /\ StrictlySmaller(stack[1], lastCall.frame)
                  /\ StrictlySmaller(stack[2], lastCall.frame)

\* a boundary scan has ended on a line with a non-contiguous run, its
\* searches having looped four times or more
C27_Witness ==
  /\ running = "scanned"
  /\ lastCall.kind = "horizontal"
  /\ NonContiguous
  /\ lastCall.probes >= 4

\* C28: every coordinate a doubling/halving search of the rasterizer or of
\* the border detection probes, the probe of the next pixel at right + 1 or
\* bottom + 1 included, lies between the near end and the far end of the
\* search; a scan of a segment writes no pixel of the surface outside it.
C28_ProbesStayOnSegment ==
  /\ lastCall.kind \in ScanKinds \cup {"solid", "small", "split", "borders"}
       => ~lastCall.strayed
  /\ lastCall.kind \in ScanKinds =>
       \A p \in Pixels :
         data[p + 1] # Black =>
           \E c \in lastCall.near..lastCall.far : p = ScannedIndex(c)

\* a row scan of a segment that ends before the end of the row has looped
\* and has filled the pixel next to the far end
C28_Witness ==
  /\ lastCall.kind = "row"
  /\ lastCall.far < canvasW - 1
  /\ lastCall.near > 0
  /\ lastCall.probes >= 2
  /\ data[ScannedIndex(lastCall.far - 1) + 1] # Black

(***************************************************************************)
(* doRender's flag                                                         *)
(***************************************************************************)
\* no render function is executing: none is in flight and neither test()
\* nor animateImage() is between two diagrams
NoRenderExecuting == inFlight = {} /\ loopPhase \in {"off", "done"}

\* C29: whenever no render function is executing, renderInProgress is false
\* (so that a request passed to doRender then is started at once), also
\* after the promise of a render function was rejected.
C29_FlagFalseWhenIdle == NoRenderExecuting => ~renderInProgress

(***************************************************************************)
(* loadImagePixelData with its cache (the later version of util.js).  An   *)
(* image URL is a number of Urls, and the pixel data of the image of a URL *)
(* stretched to a resolution is the pair of both.                          *)
(***************************************************************************)
Urls == 1..MaxUrls

\* ctx.getImageData(0, 0, width, height).data after the image was drawn
PixelData(imageUrl, key) == <<imageUrl, key>>

\* loadImagePixelData(imageUrl, width, height) up to its return: the cached
\* data, or a promise with a new Image whose load is awaited
loadImagePixelData(imageUrl, key) ==
  IF imageUrl = cachedImageUrl /\ cachedResolutions[key] # NoData
    THEN /\ served' = [kind |-> "cache", imageUrl |-> imageUrl, key |-> key,
                       data |-> cachedResolutions[key]]
         /\ UNCHANGED <<cachedImageUrl, cachedResolutions, loads>>
    ELSE /\ cachedImageUrl' = imageUrl
         /\ cachedResolutions' =
              (IF imageUrl = cachedImageUrl THEN cachedResolutions
               ELSE [k \in Resolutions |-> NoData])
         /\ loads' = loads \cup {[imageUrl |-> imageUrl, key |-> key]}
         /\ served' = NoServe

\* a call of loadImagePixelData
LoadImagePixelData ==
  /\ imageCalls < MaxImageCalls
  /\ imageCalls' = imageCalls + 1
  /\ \E imageUrl \in Urls, key \in Resolutions :
       loadImagePixelData(imageUrl, key)
  /\ UNCHANGED <<rawMetric, point, distValue, rasterVars, antialiasVars,
                 mainVars>>

\* the 'load' listener of an image: cachedResolutions[key] = imgPixelData;
\* resolve(imgPixelData)
ImageLoaded ==
  /\ \E l \in loads :
       /\ cachedResolutions' =
            [cachedResolutions EXCEPT ![l.key] = PixelData(l.imageUrl, l.key)]
       /\ loads' = loads \ {l}
  /\ UNCHANGED <<cachedImageUrl, served, imageCalls, rawMetric, point,
                 distValue, rasterVars, antialiasVars, mainVars>>

InitImage ==
  /\ UtilIdle
  /\ AntialiasIdle
  /\ MainIdle
  /\ metric = 2
  /\ RasterIdle

NextImage ==
  \/ LoadImagePixelData
  \/ ImageLoaded

SpecImage == InitImage /\ [][NextImage]_vars

\* C30: whatever the order of the calls and of the load events, a result
\* taken from the cache for (imageUrl, width, height) is the pixel data of
\* the image of that imageUrl at that resolution.
C30_CacheServesOwnUrl ==
  served # NoServe => served.data = PixelData(served.imageUrl, served.key)

=============================================================================
